---- MODULE Spec2Model ----
(***************************************************************************)
(* A model of the WASI preview-1 bindings of wasi-fs-access: the open-file *)
(* table (fileSystem.ts), the call handlers and the error adapter          *)
(* (bindings.ts), over a behavioural model of the File System Access       *)
(* backend (native-fs.d.ts).                                               *)
(*                                                                         *)
(* Strings are sequences of one-character strings, so that split, slice,   *)
(* startsWith and indexing are computed the way the code computes them.    *)
(* A backend entry is named by its path from the host root (a sequence of  *)
(* names); a handle is such a path.                                        *)
(***************************************************************************)
EXTENDS Integers, Sequences, FiniteSets, TLC

VARIABLES
  fs,                 \* the backend: node -> [kind, data]
  files,              \* OpenFiles._files: fd -> OpenFile | OpenDirectory
  nextFd,             \* OpenFiles._nextFd
  firstNonPreopenFd,  \* OpenFiles._firstNonPreopenFd
  stdin,              \* the buffer held by bufferIn
  run,                \* Bindings.run: running, or how it ended
  last,               \* the last import call: its arguments and what the guest saw
  handed,             \* history: the descriptors path_open has returned, in order
  query,              \* a findRelPath request and its answer
  collections,        \* Bindings._args and _env, and the strings they were built from
  memory,             \* Bindings.memory: which buffer it has now, and whether it is
                      \* about to grow
  abortSignal         \* the signal of the embedder's abortController

vars ==
  <<fs, files, nextFd, firstNonPreopenFd, stdin, run, last, handed, query, collections, memory,
    abortSignal>>

\* ------------------------------------------------------------------ bounds

\* how many descriptors path_open may hand out in one behaviour
MaxOpens == 2
\* how many '/'-separated components a guest path has at most
MaxPathLen == 2
\* how many bytes one iovec holds at most
MaxIov == 2
\* how many bytes a file grows to at most
MaxFileLen == 3
\* the most entries the backend holds, the host root and the preopened directories included
MaxEntries == 7
\* the most directories an embedder preopens when it asks findRelPath
MaxPreOpens == 2
\* the largest cookie a guest passes to fd_readdir
MaxCookie == 3
\* the most arguments, and the most environment entries, an embedder configures
MaxArgs == 2
\* the most subscriptions a guest passes to poll_oneoff
MaxSubs == 2
\* the most fields of a struct, and the most variants of a tagged union
MaxFields == 4
MaxVariants == 2
\* the most times the guest's memory grows
MaxGrows == 1

\* ------------------------------------------------------------------ strings

Dot == <<".">>
DotDot == <<".", ".">>

Max(a, b) == IF a > b THEN a ELSE b
Min(a, b) == IF a < b THEN a ELSE b


\* String.prototype.startsWith
StartsWith(s, p) == Len(p) <= Len(s) /\ SubSeq(s, 1, Len(p)) = p

\* String.prototype.slice(n) for 0 <= n
SliceFrom(s, n) == SubSeq(s, n + 1, Len(s))

\* the sum of a sequence of lengths
RECURSIVE Total(_)
Total(lens) == IF lens = <<>> THEN 0 ELSE Head(lens) + Total(Tail(lens))

\* a character outside ASCII: one UTF-16 code unit, two bytes in UTF-8
EAcute == "e-acute"

\* TextEncoder: the bytes of one character
Utf8(ch) == IF ch = EAcute THEN <<"0xC3", "0xA9">> ELSE <<ch>>

\* TextEncoder.encode: the bytes of a string
RECURSIVE Utf8Bytes(_)
Utf8Bytes(str) == IF str = <<>> THEN <<>> ELSE Utf8(Head(str)) \o Utf8Bytes(Tail(str))

\* textEncoder.encodeInto(value, new Uint8Array(buf, ptr, room)): whole characters
\* while they fit; [read, written] counts the code units taken and holds the bytes
RECURSIVE EncodeInto(_, _, _, _)
EncodeInto(value, room, read, written) ==
  IF value = <<>> \/ Len(Utf8(Head(value))) > room THEN [read |-> read, written |-> written]
  ELSE EncodeInto(Tail(value), room - Len(Utf8(Head(value))), read + 1,
                  written \o Utf8(Head(value)))

RECURSIVE SplitFrom(_, _)
SplitFrom(s, cur) ==
  IF s = <<>> THEN <<cur>>
  ELSE IF Head(s) = "/" THEN <<cur>> \o SplitFrom(Tail(s), <<>>)
  ELSE SplitFrom(Tail(s), Append(cur, Head(s)))

\* path ? path.split('/') : []
SplitPath(path) == IF path = <<>> THEN <<>> ELSE SplitFrom(path, <<>>)

RECURSIVE JoinPath(_)
JoinPath(parts) ==
  IF parts = <<>> THEN <<>>
  ELSE IF Len(parts) = 1 THEN parts[1]
  ELSE parts[1] \o <<"/">> \o JoinPath(Tail(parts))

\* ------------------------------------------------------------------ memory layout

\* a type descriptor: its size, its alignment and, for a struct, its fields' offsets
\* std(name, size): a number type is aligned to its size
std(size) == [size |-> size, align |-> size, offsets |-> <<>>]

\* alignTo that advances even when ptr is aligned already
alignToNext(ptr, align) == IF align = 0 THEN ptr ELSE ptr + (align - (ptr % align))

\* alignTo(ptr, align); ptr % 0 is NaN, which leaves ptr as it is
alignTo(ptr, align) ==
  IF align = 0 \/ ptr % align = 0 THEN ptr ELSE ptr + (align - (ptr % align))

\* the loop of struct over the fields of desc, in their order
RECURSIVE StructFields(_, _, _, _)
StructFields(desc, offset, structAlign, offsets) ==
  IF desc = <<>>
  THEN [size |-> alignTo(offset, structAlign), align |-> structAlign, offsets |-> offsets]
  ELSE StructFields(Tail(desc), alignTo(offset, Head(desc).align) + Head(desc).size,
                    Max(structAlign, Head(desc).align),
                    Append(offsets, alignTo(offset, Head(desc).align)))

struct(desc) == StructFields(desc, 0, 0, <<>>)

\* Math.max folded over the numbers, starting from 0
MaxOver(numbers) == CHOOSE m \in numbers \cup {0} : \A n \in numbers \cup {0} : n <= m

\* taggedUnion({tag, data}): [size, align, unionOffset]
taggedUnion(tag, data) ==
  LET unionAlign == MaxOver({data[key].align : key \in DOMAIN data})
      unionSize == alignTo(MaxOver({data[key].size : key \in DOMAIN data}), unionAlign)
      unionOffset == alignTo(tag.size, unionAlign)
      totalAlign == Max(tag.align, unionAlign)
  IN [size |-> alignTo(unionOffset + unionSize, totalAlign), align |-> totalAlign,
      unionOffset |-> unionOffset]

\* {type: preopentype_t (int8_t), nameLen: size_t (uint32_t)}
prestat_t == struct(<<std(1), std(4)>>)

\* {bufPtr: uint32_t, bufLen: size_t}
iovec_t == struct(<<std(4), std(4)>>)

\* {filetype: filetype_t (uint8_t), flags: fdflags_t (uint16_t), rightsBase: rights_t,
\*  rightsInheriting: rights_t (uint64_t)}
fdstat_t == struct(<<std(1), std(2), std(8), std(8)>>)

\* {next: dircookie_t, ino: inode_t (uint64_t), nameLen: uint32_t, type: filetype_t}
dirent_t == struct(<<std(8), std(8), std(4), std(1)>>)

\* {dev, ino, filetype: filetype_t (uint8_t), nlink, size, accessTime, modTime,
\*  changeTime}, all but filetype uint64_t
filestat_t == struct(<<std(8), std(8), std(1), std(8), std(8), std(8), std(8), std(8)>>)

\* ------------------------------------------------------------------ errors

NoErr == [type |-> "none", code |-> "", status |-> 0]
SystemError(code) == [type |-> "SystemError", code |-> code, status |-> 0]
DOMException(name) == [type |-> "DOMException", code |-> name, status |-> 0]
TypeError == [type |-> "TypeError", code |-> "", status |-> 0]
RangeError == [type |-> "RangeError", code |-> "", status |-> 0]
PlainError == [type |-> "Error", code |-> "", status |-> 0]
ExitStatus(statusCode) == [type |-> "ExitStatus", code |-> "", status |-> statusCode]

\* translateError without the break after the cases that give ACCES
translateErrorFallsThrough(err) ==
  IF err.type = "SystemError" THEN err.code
  ELSE IF err.type = "DOMException" THEN
    CASE err.code = "NotFoundError" -> "NOENT"
      [] err.code \in {"NotAllowedError", "DataCloneError", "SecurityError"} -> "NOTEMPTY"
      [] err.code = "InvalidModificationError" -> "NOTEMPTY"
      [] err.code = "AbortError" -> "CANCELED"
      [] OTHER -> "THROW"
  ELSE IF err.type \in {"TypeError", "RangeError"} THEN "INVAL"
  ELSE "THROW"

\* what a mistaken adapter would do: every unknown exception becomes an errno
translateErrorSwallow(err) ==
  IF err.type = "SystemError" THEN err.code
  ELSE IF err.type = "DOMException" /\ err.code = "NotFoundError" THEN "NOENT"
  ELSE "INVAL"

\* translateError: the errno the guest sees, or "THROW" when the exception is re-raised
translateError(err) ==
  IF err.type = "SystemError" THEN err.code
  ELSE IF err.type = "DOMException" THEN
    CASE err.code = "NotFoundError" -> "NOENT"
      [] err.code \in {"NotAllowedError", "DataCloneError", "SecurityError"} -> "ACCES"
      [] err.code = "InvalidModificationError" -> "NOTEMPTY"
      [] err.code = "AbortError" -> "CANCELED"
      [] OTHER -> "THROW"
  ELSE IF err.type \in {"TypeError", "RangeError"} THEN "INVAL"
  ELSE "THROW"

\* the proxy of getWasiImports: SUCCESS when the body completes, else translateError
Errno(err) == IF err = NoErr THEN "SUCCESS" ELSE translateError(err)

\* Bindings.run seen from one import call: an exception the proxy re-raises unwinds
\* the guest; run turns an ExitStatus into its status code and re-raises the rest
RunAfter(r, err) ==
  IF Errno(err) # "THROW" THEN r
  ELSE IF err.type = "ExitStatus" THEN [st |-> "returned", code |-> err.status]
  ELSE [st |-> "threw", code |-> 0]

\* string.set(buf, ptr, value, len): [err, written]; what does not fit is an Error
\* thrown after the part that fits was written
StringSet(value, len) ==
  LET Encoded(e) ==
        [err |-> IF e.read < Len(value) THEN PlainError ELSE NoErr, written |-> e.written]
  IN Encoded(EncodeInto(value, len, 0, <<>>))

\* ------------------------------------------------------------------ backend

HostRoot == <<>>

FileEntry(data) == [kind |-> "file", data |-> data]
DirEntry == [kind |-> "dir", data |-> <<>>]

IsDir(f, n) == n \in DOMAIN f /\ f[n].kind = "dir"
IsFileNode(f, n) == n \in DOMAIN f /\ f[n].kind = "file"

ParentOf(n) == SubSeq(n, 1, Len(n) - 1)
Children(f, n) == {m \in DOMAIN f : Len(m) = Len(n) + 1 /\ ParentOf(m) = n}

\* n is d itself or lies below it
Within(n, d) == Len(d) <= Len(n) /\ SubSeq(n, 1, Len(d)) = d

\* the File System Access API refuses these names with a TypeError
ValidName(name) == name # <<>> /\ name # Dot /\ name # DotDot

Put(f, n, e) == [m \in DOMAIN f \cup {n} |-> IF m = n THEN e ELSE f[m]]
Drop(f, n) == [m \in DOMAIN f \ {n} |-> f[m]]

\* FileSystemDirectoryHandle.getFile(name, {create})
BackendGetFile(f, dir, name, create) ==
  LET n == Append(dir, name) IN
  IF ~ValidName(name) THEN [err |-> TypeError, fs |-> f, node |-> n]
  ELSE IF ~IsDir(f, dir) THEN [err |-> DOMException("NotFoundError"), fs |-> f, node |-> n]
  ELSE IF n \in DOMAIN f THEN
    IF f[n].kind = "file" THEN [err |-> NoErr, fs |-> f, node |-> n]
    ELSE [err |-> DOMException("TypeMismatchError"), fs |-> f, node |-> n]
  ELSE IF create THEN [err |-> NoErr, fs |-> Put(f, n, FileEntry(<<>>)), node |-> n]
  ELSE [err |-> DOMException("NotFoundError"), fs |-> f, node |-> n]

\* FileSystemDirectoryHandle.getDirectory(name, {create})
BackendGetDirectory(f, dir, name, create) ==
  LET n == Append(dir, name) IN
  IF ~ValidName(name) THEN [err |-> TypeError, fs |-> f, node |-> n]
  ELSE IF ~IsDir(f, dir) THEN [err |-> DOMException("NotFoundError"), fs |-> f, node |-> n]
  ELSE IF n \in DOMAIN f THEN
    IF f[n].kind = "dir" THEN [err |-> NoErr, fs |-> f, node |-> n]
    ELSE [err |-> DOMException("TypeMismatchError"), fs |-> f, node |-> n]
  ELSE IF create THEN [err |-> NoErr, fs |-> Put(f, n, DirEntry), node |-> n]
  ELSE [err |-> DOMException("NotFoundError"), fs |-> f, node |-> n]

\* FileSystemDirectoryHandle.removeEntry(name), not recursive
BackendRemoveEntry(f, dir, name) ==
  LET n == Append(dir, name) IN
  IF ~ValidName(name) THEN [err |-> TypeError, fs |-> f]
  ELSE IF ~IsDir(f, dir) \/ n \notin DOMAIN f THEN [err |-> DOMException("NotFoundError"), fs |-> f]
  ELSE IF Children(f, n) # {} THEN [err |-> DOMException("InvalidModificationError"), fs |-> f]
  ELSE [err |-> NoErr, fs |-> Drop(f, n)]

\* FileSystemFileHandle.getFile(): a snapshot of the committed content
BackendSnapshot(f, n) ==
  IF IsFileNode(f, n) THEN [err |-> NoErr, data |-> f[n].data]
  ELSE [err |-> DOMException("NotFoundError"), data |-> <<>>]

\* FileSystemFileHandle.createWritable({keepExistingData}): a swap copy
BackendCreateWritable(f, n, keepExistingData) ==
  IF IsFileNode(f, n)
  THEN [err |-> NoErr, data |-> IF keepExistingData THEN f[n].data ELSE <<>>]
  ELSE [err |-> DOMException("NotFoundError"), data |-> <<>>]

\* FileSystemWritableFileStream.close(): the swap replaces the file
BackendCommit(f, n, data) ==
  IF IsFileNode(f, n) THEN [err |-> NoErr, fs |-> Put(f, n, FileEntry(data))]
  ELSE [err |-> DOMException("NotFoundError"), fs |-> f]

\* FileSystemWritableFileStream.write({type: 'write', position, data}) on the swap:
\* a gap before position is filled with NUL bytes
Overlay(old, pos, data) ==
  [i \in 1..Max(Len(old), pos + Len(data)) |->
     IF i > pos /\ i <= pos + Len(data) THEN data[i - pos]
     ELSE IF i <= Len(old) THEN old[i] ELSE 0]

\* FileSystemWritableFileStream.truncate(size) on the swap
Resize(old, size) ==
  [i \in 1..size |-> IF i <= Len(old) THEN old[i] ELSE 0]

\* Blob.slice(start, end): a negative bound counts from the end, both are clamped
BlobSlice(data, start, end) ==
  LET size == Len(data)
      relStart == IF start < 0 THEN Max(size + start, 0) ELSE Min(start, size)
      relEnd == IF end < 0 THEN Max(size + end, 0) ELSE Min(end, size)
      span == Max(relEnd - relStart, 0)
  IN SubSeq(data, relStart + 1, relStart + span)

\* the directory's entries in backend order: [name, isFile]
NameOrder == << <<"d">>, <<"f">>, <<"g">> >>

RECURSIVE ListFrom(_, _, _)
ListFrom(f, dir, i) ==
  IF i > Len(NameOrder) THEN <<>>
  ELSE LET n == Append(dir, NameOrder[i]) IN
       (IF n \in DOMAIN f
        THEN << [name |-> NameOrder[i], isFile |-> f[n].kind = "file"] >>
        ELSE <<>>) \o ListFrom(f, dir, i + 1)

\* FileSystemDirectoryHandle.getEntries() / values()
BackendEntries(f, dir) == ListFrom(f, dir, 1)

\* ------------------------------------------------------------------ OpenDirectory

FileOrDirAny == {"File", "Dir"}

\* a scan that lets '..' pass when nothing is accumulated
RECURSIVE ResolvePartsLenient(_, _)
ResolvePartsLenient(parts, resolvedParts) ==
  IF parts = <<>> THEN [ok |-> TRUE, parts |-> resolvedParts]
  ELSE IF Head(parts) = DotDot
  THEN ResolvePartsLenient(Tail(parts), SubSeq(resolvedParts, 1, Len(resolvedParts) - 1))
  ELSE IF Head(parts) # Dot
  THEN ResolvePartsLenient(Tail(parts), Append(resolvedParts, Head(parts)))
  ELSE ResolvePartsLenient(Tail(parts), resolvedParts)

\* the first loop of _resolve: [ok, parts]; ok = FALSE is the NOTCAPABLE throw
RECURSIVE ResolveParts(_, _)
ResolveParts(parts, resolvedParts) ==
  IF parts = <<>> THEN [ok |-> TRUE, parts |-> resolvedParts]
  ELSE IF Head(parts) = DotDot THEN
    IF resolvedParts = <<>> THEN [ok |-> FALSE, parts |-> <<>>]
    ELSE ResolveParts(Tail(parts), SubSeq(resolvedParts, 1, Len(resolvedParts) - 1))
  ELSE IF Head(parts) # Dot THEN ResolveParts(Tail(parts), Append(resolvedParts, Head(parts)))
  ELSE ResolveParts(Tail(parts), resolvedParts)

\* the second loop of _resolve: parent = await parent.getDirectory(item)
RECURSIVE WalkParts(_, _, _, _)
WalkParts(f, parent, items, walked) ==
  LET Step(r) ==
        IF r.err # NoErr
        THEN [err |-> r.err, parent |-> parent, walked |-> Append(walked, r.node)]
        ELSE WalkParts(f, r.node, Tail(items), Append(walked, r.node))
  IN IF items = <<>> THEN [err |-> NoErr, parent |-> parent, walked |-> walked]
     ELSE Step(BackendGetDirectory(f, parent, Head(items), FALSE))

\* OpenDirectory._resolve: [err, parent, hasName, name, walked]; walked lists the
\* entries the backend was asked for
Resolve(f, handle, path) ==
  LET Walked(parts, w) ==
        [err |-> w.err, parent |-> w.parent, hasName |-> parts # <<>>,
         name |-> IF parts # <<>> THEN parts[Len(parts)] ELSE <<>>, walked |-> w.walked]
      Scanned(rp) ==
        IF ~rp.ok
        THEN [err |-> SystemError("NOTCAPABLE"), parent |-> handle, hasName |-> FALSE,
              name |-> <<>>, walked |-> <<>>]
        ELSE Walked(rp.parts, WalkParts(f, handle, SubSeq(rp.parts, 1, Len(rp.parts) - 1), <<>>))
  IN Scanned(ResolveParts(SplitPath(path), <<>>))

\* openWithCreate of getFileOrDir: [err, fs, node, isFile, calls]
OpenWithCreate(f, parent, name, mode, create) ==
  LET Got(r, isFile, calls) ==
        [err |-> r.err, fs |-> r.fs, node |-> r.node, isFile |-> isFile /\ r.err = NoErr,
         calls |-> calls]
      Thrown(e, r, calls) ==
        [err |-> e, fs |-> f, node |-> r.node, isFile |-> FALSE, calls |-> calls]
      DirPart(gd, calls) ==
        IF gd.err = DOMException("TypeMismatchError")
        THEN Thrown(SystemError("NOTDIR"), gd, calls)
        ELSE Got(gd, FALSE, calls)
      FilePart(gf) ==
        IF gf.err # DOMException("TypeMismatchError") THEN Got(gf, TRUE, 1)
        ELSE IF "Dir" \notin mode THEN Thrown(SystemError("ISDIR"), gf, 1)
        ELSE DirPart(BackendGetDirectory(f, parent, name, create), 2)
  IN IF "File" \in mode THEN FilePart(BackendGetFile(f, parent, name, create))
     ELSE DirPart(BackendGetDirectory(f, parent, name, create), 1)

\* the CREATE|EXCLUSIVE probe: the entry exists unless openWithCreate(false) throws,
\* whatever it throws
ExistsProbe(probe) == probe.err = NoErr

\* OpenDirectory.getFileOrDir: [err, fs, node, isFile, walked, calls]
GetFileOrDir(f, handle, path, mode, openFlags) ==
  LET mode2 == IF "Directory" \in openFlags THEN {"Dir"} ELSE mode
      Fail(res, e, f2, c) ==
        [err |-> e, fs |-> f2, node |-> handle, isFile |-> FALSE,
         walked |-> res.walked, calls |-> Len(res.walked) + c]
      Ok(res, f2, node, isFile, c) ==
        [err |-> NoErr, fs |-> f2, node |-> node, isFile |-> isFile,
         walked |-> res.walked, calls |-> Len(res.walked) + c]
      Truncated(res, h, c, trunc) ==
        IF trunc.err # NoErr THEN Fail(res, trunc.err, h.fs, c + 1)
        ELSE Ok(res, trunc.fs, h.node, TRUE, c + 2)
      Opened(res, h, c) ==
        IF h.err # NoErr THEN Fail(res, h.err, h.fs, c + h.calls)
        ELSE IF "Truncate" \notin openFlags THEN Ok(res, h.fs, h.node, h.isFile, c + h.calls)
        ELSE IF ~h.isFile THEN Fail(res, SystemError("ISDIR"), h.fs, c + h.calls)
        ELSE Truncated(res, h, c + h.calls, BackendCommit(h.fs, h.node, <<>>))
      Probed(res, probe) ==
        IF ExistsProbe(probe) THEN Fail(res, SystemError("EXIST"), f, probe.calls)
        ELSE Opened(res, OpenWithCreate(f, res.parent, res.name, mode2, TRUE), probe.calls)
      Named(res) ==
        IF "Directory" \in openFlags /\ "Dir" \notin mode THEN Fail(res, TypeError, f, 0)
        ELSE IF {"Create", "Exclusive"} \subseteq openFlags
        THEN Probed(res, OpenWithCreate(f, res.parent, res.name, mode2, FALSE))
        ELSE Opened(res, OpenWithCreate(f, res.parent, res.name, mode2, "Create" \in openFlags), 0)
      Resolved(res) ==
        IF res.err # NoErr THEN Fail(res, res.err, f, 0)
        ELSE IF res.hasName THEN Named(res)
        ELSE IF "Dir" \notin mode THEN Fail(res, SystemError("ISDIR"), f, 0)
        ELSE IF openFlags \cap {"Create", "Exclusive"} # {} THEN Fail(res, SystemError("EXIST"), f, 0)
        ELSE IF "Truncate" \in openFlags THEN Fail(res, SystemError("ISDIR"), f, 0)
        ELSE Ok(res, f, res.parent, FALSE, 0)
  IN Resolved(Resolve(f, handle, path))

\* a delete that hands whatever name _resolve left to the backend
DeleteEntryUnguarded(f, handle, path) ==
  LET Out(res, e, f2, c) ==
        [err |-> e, fs |-> f2, walked |-> res.walked, calls |-> Len(res.walked) + c]
      Removed(res, rm) == Out(res, rm.err, rm.fs, 1)
      Resolved(res) ==
        IF res.err # NoErr THEN Out(res, res.err, f, 0)
        ELSE Removed(res, BackendRemoveEntry(f, res.parent, res.name))
  IN Resolved(Resolve(f, handle, path))

\* a delete that asks the backend to remove the entry with all it holds
DeleteEntryRecursive(f, handle, path) ==
  LET Out(res, e, f2, c) ==
        [err |-> e, fs |-> f2, walked |-> res.walked, calls |-> Len(res.walked) + c]
      Pruned(n) == [m \in {k \in DOMAIN f : ~Within(k, n)} |-> f[m]]
      Removed(res, rm) ==
        IF rm.err = DOMException("InvalidModificationError")
        THEN Out(res, NoErr, Pruned(Append(res.parent, res.name)), 1)
        ELSE Out(res, rm.err, rm.fs, 1)
      Resolved(res) ==
        IF res.err # NoErr THEN Out(res, res.err, f, 0)
        ELSE IF ~res.hasName \/ res.name = <<>> THEN Out(res, SystemError("ACCES"), f, 0)
        ELSE Removed(res, BackendRemoveEntry(f, res.parent, res.name))
  IN Resolved(Resolve(f, handle, path))

\* OpenDirectory.delete: [err, fs, walked, calls]
DeleteEntry(f, handle, path) ==
  LET Out(res, e, f2, c) ==
        [err |-> e, fs |-> f2, walked |-> res.walked, calls |-> Len(res.walked) + c]
      Removed(res, rm) == Out(res, rm.err, rm.fs, 1)
      Resolved(res) ==
        IF res.err # NoErr THEN Out(res, res.err, f, 0)
        ELSE IF ~res.hasName \/ res.name = <<>> THEN Out(res, SystemError("ACCES"), f, 0)
        ELSE Removed(res, BackendRemoveEntry(f, res.parent, res.name))
  IN Resolved(Resolve(f, handle, path))

\* ------------------------------------------------------------------ OpenFile

NoBlob == [has |-> FALSE, data |-> <<>>]
Blob(data) == [has |-> TRUE, data |-> data]
NoIter == [has |-> FALSE, pos |-> 0, at |-> 0, reverted |-> <<>>]

\* new OpenFile(path, handle) / new OpenDirectory(path, handle); streams counts the
\* writable streams the backend has created for it and not closed
NewOpen(path, node, isFile) ==
  [isFile |-> isFile, path |-> path, handle |-> node, position |-> 0,
   file |-> NoBlob, writer |-> NoBlob, iter |-> NoIter, streams |-> 0]

\* a flush that forgets to close the writer
FlushNoClose(f, of) == [err |-> NoErr, fs |-> f, of |-> of]

\* OpenFile.flush: [err, fs, of]
Flush(f, of) ==
  LET Closed(c) ==
        IF c.err # NoErr THEN [err |-> c.err, fs |-> f, of |-> of]
        ELSE [err |-> NoErr, fs |-> c.fs,
              of |-> [of EXCEPT !.writer = NoBlob, !.file = NoBlob, !.streams = @ - 1]]
  IN IF ~of.writer.has THEN [err |-> NoErr, fs |-> f, of |-> of]
     ELSE Closed(BackendCommit(f, of.handle, of.writer.data))

\* a getFile that serves its snapshot without flushing the writer first
GetFileUnflushed(f, of) ==
  LET Snapped(snap) ==
        IF snap.err # NoErr THEN [err |-> snap.err, fs |-> f, of |-> of]
        ELSE [err |-> NoErr, fs |-> f, of |-> [of EXCEPT !.file = Blob(snap.data)]]
  IN IF of.file.has THEN [err |-> NoErr, fs |-> f, of |-> of]
     ELSE Snapped(BackendSnapshot(f, of.handle))

\* OpenFile.getFile: [err, fs, of]; of.file is the snapshot served
GetFile(f, of) ==
  LET Snapped(fl, snap) ==
        IF snap.err # NoErr THEN [err |-> snap.err, fs |-> fl.fs, of |-> fl.of]
        ELSE [err |-> NoErr, fs |-> fl.fs, of |-> [fl.of EXCEPT !.file = Blob(snap.data)]]
      Flushed(fl) ==
        IF fl.err # NoErr \/ fl.of.file.has THEN fl
        ELSE Snapped(fl, BackendSnapshot(fl.fs, of.handle))
  IN Flushed(Flush(f, of))

\* a _getWriter that asks the backend for a stream whether or not one is cached
GetWriterUncached(f, of) ==
  LET Created(w) ==
        IF w.err # NoErr THEN [err |-> w.err, of |-> of]
        ELSE [err |-> NoErr, of |-> [of EXCEPT !.writer = Blob(w.data), !.streams = @ + 1]]
  IN Created(BackendCreateWritable(f, of.handle, TRUE))

\* OpenFile._getWriter: [err, of]
GetWriter(f, of) ==
  LET Created(w) ==
        IF w.err # NoErr THEN [err |-> w.err, of |-> of]
        ELSE [err |-> NoErr, of |-> [of EXCEPT !.writer = Blob(w.data), !.streams = @ + 1]]
  IN IF of.writer.has THEN [err |-> NoErr, of |-> of]
     ELSE Created(BackendCreateWritable(f, of.handle, TRUE))

\* the position a write leaves behind when it forgets to advance
PositionAfterWriteStuck(position, len) == position

\* this.position += data.length
PositionAfterWrite(position, len) == position + len

\* OpenFile.write: [err, of, n]; a position the stream cannot take (negative, read
\* as a huge unsigned offset) is refused by the backend
WriteFile(f, of, data) ==
  LET Written(w) ==
        IF w.err # NoErr THEN [err |-> w.err, of |-> w.of, n |-> 0]
        ELSE IF w.of.position < 0
        THEN [err |-> DOMException("QuotaExceededError"), of |-> w.of, n |-> 0]
        ELSE [err |-> NoErr,
              of |-> [w.of EXCEPT !.writer = Blob(Overlay(w.of.writer.data, w.of.position, data)),
                                  !.position = PositionAfterWrite(w.of.position, Len(data))],
              n |-> Len(data)]
  IN Written(GetWriter(f, of))

\* OpenFile.setSize: [err, of]
SetSize(f, of, size) ==
  LET Sized(w) ==
        IF w.err # NoErr THEN [err |-> w.err, of |-> w.of]
        ELSE IF size < 0 THEN [err |-> DOMException("QuotaExceededError"), of |-> w.of]
        ELSE [err |-> NoErr, of |-> [w.of EXCEPT !.writer = Blob(Resize(w.of.writer.data, size))]]
  IN Sized(GetWriter(f, of))

\* OpenFile.read: [err, fs, of, chunk]
ReadFile(f, of, len) ==
  LET Sliced(g, chunk) ==
        [err |-> NoErr, fs |-> g.fs,
         of |-> [g.of EXCEPT !.position = g.of.position + Len(chunk)], chunk |-> chunk]
      Got(g) ==
        IF g.err # NoErr THEN [err |-> g.err, fs |-> g.fs, of |-> g.of, chunk |-> <<>>]
        ELSE Sliced(g, BlobSlice(g.of.file.data, g.of.position, g.of.position + len))
  IN Got(GetFile(f, of))

\* ------------------------------------------------------------------ OpenFiles

FIRST_PREOPEN_FD == 3

\* the table and the backend, threaded through the operations
State(f, fl, nf) == [fs |-> f, files |-> fl, nextFd |-> nf]

\* OpenFiles.get: the SystemError(BADF) test
Has(fl, fd) == fd \in DOMAIN fl

\* OpenFiles.getPreOpen: the range test
IsPreOpenFd(fd, first) == fd >= FIRST_PREOPEN_FD /\ fd < first

\* an _add that hands out the lowest number not in the table
AddReuse(S, path, node, isFile) ==
  LET free == {n \in FIRST_PREOPEN_FD..S.nextFd : n \notin DOMAIN S.files}
      fd == CHOOSE n \in free : \A m \in free : n <= m
  IN [S |-> State(S.fs, Put(S.files, fd, NewOpen(path, node, isFile)), Max(S.nextFd, fd + 1)),
      fd |-> fd]

\* OpenFiles._add: [S, fd]
Add(S, path, node, isFile) ==
  [S |-> State(S.fs, Put(S.files, S.nextFd, NewOpen(path, node, isFile)), S.nextFd + 1),
   fd |-> S.nextFd]

\* OpenFiles.open: [err, S, fd, walked, calls]
Open(S, preOpen, path, openFlags) ==
  LET Added(g, a) ==
        [err |-> NoErr, S |-> a.S, fd |-> a.fd, walked |-> g.walked, calls |-> g.calls]
      Got(g) ==
        IF g.err # NoErr
        THEN [err |-> g.err, S |-> State(g.fs, S.files, S.nextFd), fd |-> 0,
              walked |-> g.walked, calls |-> g.calls]
        ELSE Added(g, Add(State(g.fs, S.files, S.nextFd), preOpen.path \o <<"/">> \o path,
                          g.node, g.isFile))
  IN Got(GetFileOrDir(S.fs, preOpen.handle, path, FileOrDirAny, openFlags))

\* a close that takes a descriptor the table does not hold for closed already
CloseLenient(S, fd) ==
  LET Flushed(fl) == [err |-> fl.err, S |-> State(fl.fs, Drop(S.files, fd), S.nextFd)]
  IN IF ~Has(S.files, fd) THEN [err |-> NoErr, S |-> S]
     ELSE IF ~S.files[fd].isFile THEN [err |-> NoErr, S |-> State(S.fs, Drop(S.files, fd), S.nextFd)]
     ELSE Flushed(Flush(S.fs, S.files[fd]))

\* OpenFiles.close: [err, S]; _take removes the entry before its close() runs
Close(S, fd) ==
  LET Flushed(fl) == [err |-> fl.err, S |-> State(fl.fs, Drop(S.files, fd), S.nextFd)]
  IN IF ~Has(S.files, fd) THEN [err |-> SystemError("BADF"), S |-> S]
     ELSE IF ~S.files[fd].isFile THEN [err |-> NoErr, S |-> State(S.fs, Drop(S.files, fd), S.nextFd)]
     ELSE Flushed(Flush(S.fs, S.files[fd]))

\* a renumber that does not insist on closing `to` first
RenumberLenient(S, from, to) ==
  IF ~Has(S.files, from) THEN [err |-> SystemError("BADF"), S |-> S]
  ELSE [err |-> NoErr,
        S |-> State(S.fs, Put(Drop(S.files, from), to, S.files[from]), S.nextFd)]

\* OpenFiles.renumber: [err, S]
Renumber(S, from, to) ==
  LET Closed(c) ==
        IF c.err # NoErr THEN c
        ELSE IF ~Has(c.S.files, from) THEN [err |-> SystemError("BADF"), S |-> c.S]
        ELSE [err |-> NoErr,
              S |-> State(c.S.fs, Put(Drop(c.S.files, from), to, c.S.files[from]), c.S.nextFd)]
  IN Closed(Close(S, to))

\* path[i] of a JavaScript string, i from 0: undefined past its end
CharAt(str, i) == IF i >= 0 /\ i < Len(str) THEN str[i + 1] ELSE "undefined"

\* while (i > 0 && prefix[i - 1] == '/') --i
RECURSIVE TrimmedLen(_, _)
TrimmedLen(prefix, i) ==
  IF i > 0 /\ CharAt(prefix, i - 1) = "/" THEN TrimmedLen(prefix, i - 1) ELSE i

\* prefixMatches of findRelPath; "NUL" stands for the character '\0', which no
\* path[i] of a JavaScript string yields at its end
prefixMatches(prefix, path) ==
  IF CharAt(path, 0) # "/" /\ prefix = <<>> THEN TRUE
  ELSE IF ~StartsWith(path, prefix) THEN FALSE
  ELSE CharAt(path, TrimmedLen(prefix, Len(prefix))) \in {"/", "NUL"}

\* the prefix of a preopen as findRelPath compares it with path
EffectivePrefix(prefix, path) ==
  IF path # <<".">> /\ ~StartsWith(path, <<".", "/">>)
  THEN IF StartsWith(prefix, <<".", "/">>) THEN SliceFrom(prefix, 2)
       ELSE IF prefix = <<".">> THEN SliceFrom(prefix, 1)
       ELSE prefix
  ELSE prefix

\* the loop of findRelPath over the preopens, the last registered first:
\* [found, fd, matchLen]
RECURSIVE FindLoop(_, _, _, _)
FindLoop(fl, path, i, best) ==
  IF i < FIRST_PREOPEN_FD THEN best
  ELSE IF (~best.found \/ Len(EffectivePrefix(fl[i].path, path)) > best.matchLen)
          /\ prefixMatches(EffectivePrefix(fl[i].path, path), path)
  THEN FindLoop(fl, path, i - 1,
                [found |-> TRUE, fd |-> i, matchLen |-> Len(EffectivePrefix(fl[i].path, path))])
  ELSE FindLoop(fl, path, i - 1, best)

\* computed.replace(/^\/+/, '')
RECURSIVE StripLeadingSlashes(_)
StripLeadingSlashes(str) ==
  IF str # <<>> /\ Head(str) = "/" THEN StripLeadingSlashes(Tail(str)) ELSE str

\* OpenFiles.findRelPath: [err, fd, relativePath]
FindRelPath(fl, first, path) ==
  LET Computed(str) == IF str = <<>> THEN <<".">> ELSE str
      Found(best) ==
        IF ~best.found THEN [err |-> PlainError, fd |-> 0, relativePath |-> <<>>]
        ELSE [err |-> NoErr, fd |-> best.fd,
              relativePath |-> Computed(StripLeadingSlashes(SliceFrom(path, best.matchLen)))]
  IN Found(FindLoop(fl, path, first - 1, [found |-> FALSE, fd |-> 0, matchLen |-> 0]))

\* ------------------------------------------------------------------ construction

\* the backend the tests and the shell hand over: two host directories, /s with a
\* directory d (holding a file f) and a file f, and an empty /t
S_ == <<"s">>
T_ == <<"t">>
D_ == <<"d">>
F_ == <<"f">>
G_ == <<"g">>

InitFs ==
  (HostRoot :> DirEntry) @@ (<<S_>> :> DirEntry) @@ (<<T_>> :> DirEntry)
  @@ (<<S_, D_>> :> DirEntry) @@ (<<S_, D_, F_>> :> FileEntry(<<1>>))
  @@ (<<S_, F_>> :> FileEntry(<<1, 2>>))

\* bufferIn(textEncoder.encode(stdin)): the bytes configured as standard input
StdinBytes == <<7, 8, 9>>

\* new OpenFiles({'/s': s, '/t': t}), in the order of the record's keys
PreOpens == << [path |-> <<"/", "s">>, handle |-> <<S_>>],
               [path |-> <<"/", "t">>, handle |-> <<T_>>] >>

RECURSIVE AddAll(_, _)
AddAll(S, pre) ==
  IF pre = <<>> THEN S
  ELSE AddAll(Add(S, Head(pre).path, Head(pre).handle, FALSE).S, Tail(pre))

\* the OpenFiles constructor
Construct(f, pre) == AddAll(State(f, <<>>, FIRST_PREOPEN_FD), pre)

\* the constructor of StringCollection: [offsets, buffer]; an offset is the length
\* of the buffer, in UTF-16 code units, when its string is appended
RECURSIVE StringCollection(_, _, _)
StringCollection(strs, offsets, buffer) ==
  IF strs = <<>> THEN [offsets |-> offsets, buffer |-> buffer]
  ELSE StringCollection(Tail(strs), Append(offsets, Len(buffer)),
                        buffer \o Head(strs) \o <<"NUL">>)

\* the program name the constructor of Bindings puts before the arguments
ProgramName == <<"u", "u", "t", "i", "l", "s">>

\* Object.entries(env).map(([key, value]) => `${key}=${value}`), for keys that are
\* not numbers
EnvStrings(env) == [i \in 1..Len(env) |-> env[i].key \o <<"=">> \o env[i].value]

\* the constructor of Bindings: _args and _env, and what they were built from
Configure(argv, env) ==
  [argv |-> <<ProgramName>> \o argv, environ |-> EnvStrings(env),
   args |-> StringCollection(<<ProgramName>> \o argv, <<>>, <<>>),
   env |-> StringCollection(EnvStrings(env), <<>>, <<>>)]

\* the configuration of the tests: args ['foo', '-bar', '--baz=value'] and env
\* {NODE_PLATFORM: 'win32'}
TestArgs ==
  << <<"f", "o", "o">>, <<"-", "b", "a", "r">>,
     <<"-", "-", "b", "a", "z", "=", "v", "a", "l", "u", "e">> >>

TestEnv ==
  << [key |-> <<"N", "O", "D", "E", "_", "P", "L", "A", "T", "F", "O", "R", "M">>,
      value |-> <<"w", "i", "n", "3", "2">>] >>

\* what the guest has just been answered, and what the handler's body threw; "none"
\* while the guest itself runs
NoCall ==
  [op |-> "none", fd |-> 0, fd2 |-> 0, path |-> <<>>, flags |-> {}, fdflags |-> {},
   errno |-> "", val |-> 0, data |-> <<>>, lens |-> <<>>, pos0 |-> 0, size0 |-> 0,
   walked |-> <<>>, calls |-> 0, kept |-> TRUE, existed |-> "none", stopped |-> <<>>,
   thrown |-> NoErr, subs |-> <<>>]

\* the guest's linear memory: buffer counts the ArrayBuffers it has had (growing it
\* detaches the buffer and makes a new one); grows says that the embedder's side will
\* grow it the next time a handler is suspended
InitMemory == [buffer |-> 0, grows |-> FALSE]

\* new AbortController().signal, which the embedder passes to new Bindings and the
\* constructor leaves out of what it keeps: aborted is the signal's flag; fires says
\* that the terminal's handler will call abort() the next time a handler is suspended
\* (the guest's own code does not yield to the event loop)
NoAbort == [aborted |-> FALSE, fires |-> FALSE]

NoQuery == [path |-> <<>>, pre |-> <<>>, found |-> FALSE, fd |-> 0, relativePath |-> <<>>]

Init ==
  LET S == Construct(InitFs, PreOpens) IN
  /\ fs = S.fs
  /\ files = S.files
  /\ nextFd = S.nextFd
  /\ firstNonPreopenFd = S.nextFd
  /\ stdin = StdinBytes
  /\ run = [st |-> "running", code |-> 0]
  /\ memory = InitMemory
  /\ abortSignal = NoAbort
  /\ last = NoCall
  /\ handed = <<>>
  /\ query = NoQuery
  /\ collections = Configure(TestArgs, TestEnv)

\* the guest is running its own code: it may call an import
Ready == run.st = "running" /\ last.op = "none"

\* the table and backend after a handler, and what the run becomes
Apply(S, err) ==
  /\ fs' = S.fs
  /\ files' = S.files
  /\ nextFd' = S.nextFd
  /\ run' = RunAfter(run, err)
  /\ memory' = IF memory.grows THEN [buffer |-> memory.buffer + 1, grows |-> FALSE] ELSE memory
  /\ abortSignal' = IF abortSignal.fires THEN [aborted |-> TRUE, fires |-> FALSE] ELSE abortSignal

Here == State(fs, files, nextFd)

\* the import returned: the guest runs on
Return ==
  /\ run.st = "running"
  /\ last.op # "none"
  /\ last' = NoCall
  /\ UNCHANGED <<abortSignal, memory, collections, fs, files, nextFd, firstNonPreopenFd, stdin, run, handed, query>>

\* the swap of fd's writer before the call, for the claims
Swap0(fd) == IF Has(files, fd) /\ files[fd].isFile THEN files[fd].writer ELSE NoBlob

\* the call record of a flushing call on fd: it notes the swap the call found
FlushCall(op, fd, err) ==
  [NoCall EXCEPT !.op = op, !.fd = fd, !.errno = Errno(err), !.thrown = err,
                 !.existed = IF Swap0(fd).has THEN "swap" ELSE "none",
                 !.walked = IF Has(files, fd) THEN <<files[fd].handle>> ELSE <<>>,
                 !.data = Swap0(fd).data]

\* the path with '.' dropped and '..' taking back the component before it
RECURSIVE Normal(_, _)
Normal(parts, acc) ==
  IF parts = <<>> THEN acc
  ELSE IF Head(parts) = DotDot THEN Normal(Tail(parts), SubSeq(acc, 1, Len(acc) - 1))
  ELSE IF Head(parts) = Dot THEN Normal(Tail(parts), acc)
  ELSE Normal(Tail(parts), Append(acc, Head(parts)))

\* what the backend holds before the call where path leads from dirFd, for the claims
EntryKind(dirFd, path) ==
  LET n == files[dirFd].handle \o Normal(SplitPath(path), <<>>) IN
  IF ~Has(files, dirFd) \/ files[dirFd].isFile THEN "none"
  ELSE IF n \in DOMAIN fs THEN fs[n].kind ELSE "none"

\* the position of fd before the call, for the claims
Position0(fd) == IF Has(files, fd) /\ files[fd].isFile THEN files[fd].position ELSE 0

\* ------------------------------------------------------------------ handlers

Failed(err, S) == [err |-> err, S |-> S, fd |-> 0, walked |-> <<>>, calls |-> 0]

\* a getPreOpen that takes any open directory for a preopen
PreOpenErrAnyDirectory(S, first, dirFd) ==
  IF ~Has(S.files, dirFd) THEN SystemError("BADF")
  ELSE IF S.files[dirFd].isFile THEN TypeError
  ELSE NoErr

\* this._openFiles.getPreOpen(dirFd) and the method call on what it returns: a
\* descriptor of the preopen range that was renumbered onto a file has no
\* getFileOrDir and no delete to call
PreOpenErr(S, first, dirFd) ==
  IF ~IsPreOpenFd(dirFd, first) \/ ~Has(S.files, dirFd) THEN SystemError("BADF")
  ELSE IF S.files[dirFd].isFile THEN TypeError
  ELSE NoErr

\* the body of path_open: [err, S, fd, walked, calls]. The buffer fd_t.set writes to
\* is an argument evaluated before the await on open: when the memory grew in
\* between (grows), it is detached and the DataView's setter throws a TypeError
PathOpenBody(S, first, dirFd, path, oFlags, fsFlags, grows) ==
  LET Stored(o) == IF o.err = NoErr /\ grows THEN [o EXCEPT !.err = TypeError, !.fd = 0] ELSE o
  IN IF fsFlags \ {"NonBlock"} # {} THEN Failed(SystemError("NOSYS"), S)
     ELSE IF PreOpenErr(S, first, dirFd) # NoErr THEN Failed(PreOpenErr(S, first, dirFd), S)
     ELSE Stored(Open(S, S.files[dirFd], path, oFlags))

path_open(dirFd, path, oFlags, fsFlags) ==
  /\ Ready
  /\ \E r \in {PathOpenBody(Here, firstNonPreopenFd, dirFd, path, oFlags, fsFlags, memory.grows)} :
    /\ r.err = NoErr => nextFd < firstNonPreopenFd + MaxOpens
    /\ Apply(r.S, r.err)
    /\ handed' = IF r.err = NoErr THEN Append(handed, r.fd) ELSE handed
    /\ last' = [NoCall EXCEPT !.op = "path_open", !.fd = dirFd, !.path = path, !.flags = oFlags,
                              !.fdflags = fsFlags, !.errno = Errno(r.err), !.thrown = r.err, !.val = r.fd,
                              !.walked = r.walked, !.calls = r.calls, !.kept = (r.S = Here),
                              !.existed = EntryKind(dirFd, path)]
    /\ UNCHANGED <<collections, firstNonPreopenFd, stdin, query>>

\* getPreOpen(dirFd).getFileOrDir(path, mode, flags): [err, fs, node, isFile, walked, calls]
PathGetBody(S, first, dirFd, path, mode, oFlags) ==
  IF PreOpenErr(S, first, dirFd) # NoErr
  THEN [err |-> PreOpenErr(S, first, dirFd), fs |-> S.fs, node |-> <<>>, isFile |-> FALSE,
        walked |-> <<>>, calls |-> 0]
  ELSE GetFileOrDir(S.fs, S.files[dirFd].handle, path, mode, oFlags)

path_create_directory(dirFd, path) ==
  /\ Ready
  /\ \E r \in {PathGetBody(Here, firstNonPreopenFd, dirFd, path, {"Dir"},
                           {"Create", "Directory", "Exclusive"})} :
    /\ Apply(State(r.fs, files, nextFd), r.err)
    /\ last' = [NoCall EXCEPT !.op = "path_create_directory", !.fd = dirFd, !.path = path,
                              !.errno = Errno(r.err), !.thrown = r.err, !.walked = r.walked, !.calls = r.calls,
                              !.kept = (r.fs = fs), !.existed = EntryKind(dirFd, path)]
    /\ UNCHANGED <<collections, firstNonPreopenFd, stdin, query, handed>>

\* the body of path_filestat_get: the stat of a file takes a snapshot of it
PathFilestatBody(S, first, dirFd, path) ==
  LET Out(g, e, size, c) ==
        [err |-> e, size |-> size, isFile |-> g.isFile, walked |-> g.walked, calls |-> g.calls + c]
      Snapped(g, snap) == Out(g, snap.err, Len(snap.data), 1)
      Got(g) ==
        IF g.err # NoErr \/ ~g.isFile THEN Out(g, g.err, 0, 0)
        ELSE Snapped(g, BackendSnapshot(g.fs, g.node))
  IN Got(PathGetBody(S, first, dirFd, path, FileOrDirAny, {}))

path_filestat_get(dirFd, path) ==
  /\ Ready
  /\ \E r \in {PathFilestatBody(Here, firstNonPreopenFd, dirFd, path)} :
    /\ Apply(Here, r.err)
    /\ last' = [NoCall EXCEPT !.op = "path_filestat_get", !.fd = dirFd, !.path = path,
                              !.errno = Errno(r.err), !.thrown = r.err, !.val = r.size, !.walked = r.walked,
                              !.calls = r.calls]
    /\ UNCHANGED <<collections, firstNonPreopenFd, stdin, query, handed>>

\* getPreOpen(dirFd).delete(path): [err, fs, walked, calls]
PathDeleteBody(S, first, dirFd, path) ==
  IF PreOpenErr(S, first, dirFd) # NoErr
  THEN [err |-> PreOpenErr(S, first, dirFd), fs |-> S.fs, walked |-> <<>>, calls |-> 0]
  ELSE DeleteEntry(S.fs, S.files[dirFd].handle, path)

path_remove_directory(dirFd, path) ==
  /\ Ready
  /\ \E r \in {PathDeleteBody(Here, firstNonPreopenFd, dirFd, path)} :
    /\ Apply(State(r.fs, files, nextFd), r.err)
    /\ last' = [NoCall EXCEPT !.op = "path_remove_directory", !.fd = dirFd, !.path = path,
                              !.errno = Errno(r.err), !.thrown = r.err, !.walked = r.walked, !.calls = r.calls,
                              !.kept = (r.fs = fs), !.existed = EntryKind(dirFd, path)]
    /\ UNCHANGED <<collections, firstNonPreopenFd, stdin, query, handed>>

path_unlink_file(dirFd, path) ==
  /\ Ready
  /\ \E r \in {PathDeleteBody(Here, firstNonPreopenFd, dirFd, path)} :
    /\ Apply(State(r.fs, files, nextFd), r.err)
    /\ last' = [NoCall EXCEPT !.op = "path_unlink_file", !.fd = dirFd, !.path = path,
                              !.errno = Errno(r.err), !.thrown = r.err, !.walked = r.walked, !.calls = r.calls,
                              !.kept = (r.fs = fs), !.existed = EntryKind(dirFd, path)]
    /\ UNCHANGED <<collections, firstNonPreopenFd, stdin, query, handed>>

fd_close(fd) ==
  /\ Ready
  /\ \E r \in {Close(Here, fd)} :
    /\ Apply(r.S, r.err)
    /\ last' = [FlushCall("fd_close", fd, r.err) EXCEPT !.kept = (r.S = Here)]
    /\ UNCHANGED <<collections, firstNonPreopenFd, stdin, query, handed>>

fd_renumber(from, to) ==
  /\ Ready
  /\ \E r \in {Renumber(Here, from, to)} :
    /\ Apply(r.S, r.err)
    /\ last' = [NoCall EXCEPT !.op = "fd_renumber", !.fd = from, !.fd2 = to,
                              !.errno = Errno(r.err), !.thrown = r.err, !.kept = (r.S = Here)]
    /\ UNCHANGED <<collections, firstNonPreopenFd, stdin, query, handed>>

\* the body of fd_prestat_get: [err, nameLen]; getPreOpen casts whatever the table
\* holds at fd
FdPrestatGetBody(S, first, fd) ==
  IF ~IsPreOpenFd(fd, first) \/ ~Has(S.files, fd)
  THEN [err |-> SystemError("BADF"), nameLen |-> 0]
  ELSE [err |-> NoErr, nameLen |-> Len(S.files[fd].path)]

fd_prestat_get(fd) ==
  /\ Ready
  /\ \E r \in {FdPrestatGetBody(Here, firstNonPreopenFd, fd)} :
    /\ Apply(Here, r.err)
    /\ last' = [NoCall EXCEPT !.op = "fd_prestat_get", !.fd = fd, !.errno = Errno(r.err), !.thrown = r.err,
                              !.val = r.nameLen]
    /\ UNCHANGED <<collections, firstNonPreopenFd, stdin, query, handed>>

\* the body of fd_prestat_dir_name: [err, written]
FdPrestatDirNameBody(S, first, fd, pathLen) ==
  IF ~IsPreOpenFd(fd, first) \/ ~Has(S.files, fd)
  THEN [err |-> SystemError("BADF"), written |-> <<>>]
  ELSE StringSet(S.files[fd].path, pathLen)

fd_prestat_dir_name(fd, pathLen) ==
  /\ Ready
  /\ \E r \in {FdPrestatDirNameBody(Here, firstNonPreopenFd, fd, pathLen)} :
    /\ Apply(Here, r.err)
    /\ last' = [NoCall EXCEPT !.op = "fd_prestat_dir_name", !.fd = fd, !.size0 = pathLen,
                              !.errno = Errno(r.err), !.thrown = r.err, !.data = r.written]
    /\ UNCHANGED <<collections, firstNonPreopenFd, stdin, query, handed>>

\* StringCollection.sizes_get: [count, size]
SizesGet(c) == [count |-> Len(c.offsets), size |-> Len(c.buffer)]

\* StringCollection.get: [err, pointers, written]; the pointers are written before
\* string.set is given buffer.length bytes for the buffer
CollectionGet(c, ptr) ==
  LET Set(w) ==
        [err |-> w.err, pointers |-> [i \in 1..Len(c.offsets) |-> ptr + c.offsets[i]],
         written |-> w.written]
  IN Set(StringSet(c.buffer, Len(c.buffer)))

\* the call of sizes_get that the import op makes on the collection c
SizesGetCall(op, c) ==
  /\ Ready
  /\ Apply(Here, NoErr)
  /\ last' = [NoCall EXCEPT !.op = op, !.errno = Errno(NoErr), !.thrown = NoErr, !.val = SizesGet(c).count,
                            !.size0 = SizesGet(c).size]
  /\ UNCHANGED <<collections, firstNonPreopenFd, stdin, query, handed>>

\* the call of get that the import op makes on the collection c
GetCall(op, c, bufPtr) ==
  /\ Ready
  /\ \E r \in {CollectionGet(c, bufPtr)} :
    /\ Apply(Here, r.err)
    /\ last' = [NoCall EXCEPT !.op = op, !.errno = Errno(r.err), !.thrown = r.err, !.pos0 = bufPtr,
                              !.lens = r.pointers, !.data = r.written]
    /\ UNCHANGED <<collections, firstNonPreopenFd, stdin, query, handed>>

environ_sizes_get == SizesGetCall("environ_sizes_get", collections.env)

environ_get(environBufPtr) == GetCall("environ_get", collections.env, environBufPtr)

args_sizes_get == SizesGetCall("args_sizes_get", collections.args)

args_get(argvBufPtr) == GetCall("args_get", collections.args, argvBufPtr)

\* clockEvents.sort((a, b) => a.timeout - b.timeout): equal timeouts keep their order
RECURSIVE SortClocks(_)
SortClocks(clockEvents) ==
  IF clockEvents = <<>> THEN <<>>
  ELSE LET item == clockEvents[Len(clockEvents)]
           Insert(sorted) ==
             LET k == Cardinality({i \in DOMAIN sorted : sorted[i].timeout <= item.timeout})
             IN SubSeq(sorted, 1, k) \o <<item>> \o SubSeq(sorted, k + 1, Len(sorted))
       IN Insert(SortClocks(SubSeq(clockEvents, 1, Len(clockEvents) - 1)))

\* a matchingCount that leaves the precision out of wait
MatchingCountExact(clockEvents) ==
  LET wait == clockEvents[1].timeout
      later == {i \in DOMAIN clockEvents : clockEvents[i].timeout > wait}
  IN IF later = {} THEN Len(clockEvents)
     ELSE (CHOOSE i \in later : \A j \in later : i <= j) - 1

\* matchingCount of the sorted clockEvents: findIndex(item => item.timeout > wait), or
\* their number when findIndex finds none
MatchingCount(clockEvents) ==
  LET wait == clockEvents[1].timeout + clockEvents[1].extra
      later == {i \in DOMAIN clockEvents : clockEvents[i].timeout > wait}
  IN IF later = {} THEN Len(clockEvents)
     ELSE (CHOOSE i \in later : \A j \in later : i <= j) - 1

\* a loop that writes each event in front of the earlier ones
RECURSIVE PollLoopNewestFirst(_, _, _, _)
PollLoopNewestFirst(subs, now, events, clockEvents) ==
  IF subs = <<>> THEN [err |-> NoErr, events |-> events, clockEvents |-> clockEvents]
  ELSE LET s == Head(subs)
       IN IF s.tag = "Clock"
          THEN PollLoopNewestFirst(Tail(subs), now, events,
                        Append(clockEvents,
                               [timeout |-> IF s.flags = "Absolute" THEN s.timeout - now
                                            ELSE s.timeout,
                                extra |-> s.precision, userdata |-> s.userdata]))
          ELSE IF s.tag \in {"FdRead", "FdWrite"}
          THEN PollLoopNewestFirst(Tail(subs), now,
                        <<[userdata |-> s.userdata, error |-> "NOSYS", type |-> s.tag]>>
                          \o events,
                        clockEvents)
          ELSE [err |-> TypeError, events |-> events, clockEvents |-> clockEvents]

\* the loop of poll_oneoff over the subscriptions: [err, events, clockEvents]; a tag
\* that has no descriptor in subscription_union_t makes taggedUnion's get a TypeError
RECURSIVE PollLoop(_, _, _, _)
PollLoop(subs, now, events, clockEvents) ==
  IF subs = <<>> THEN [err |-> NoErr, events |-> events, clockEvents |-> clockEvents]
  ELSE LET s == Head(subs)
       IN IF s.tag = "Clock"
          THEN PollLoop(Tail(subs), now, events,
                        Append(clockEvents,
                               [timeout |-> IF s.flags = "Absolute" THEN s.timeout - now
                                            ELSE s.timeout,
                                extra |-> s.precision, userdata |-> s.userdata]))
          ELSE IF s.tag \in {"FdRead", "FdWrite"}
          THEN PollLoop(Tail(subs), now,
                        Append(events, [userdata |-> s.userdata, error |-> "NOSYS",
                                        type |-> s.tag]),
                        clockEvents)
          ELSE [err |-> TypeError, events |-> events, clockEvents |-> clockEvents]

\* an empty list of subscriptions answered with no events, as poll(2) does
PollOneoffBodyLenient(subs, now) ==
  LET Done(l) ==
        IF l.err # NoErr THEN [err |-> l.err, events |-> l.events, eventsNum |-> <<>>, waited |-> 0]
        ELSE IF l.events = <<>> /\ l.clockEvents # <<>>
        THEN LET Fired(sorted) ==
                   [err |-> NoErr,
                    events |-> [i \in 1..MatchingCount(sorted) |->
                                  [userdata |-> sorted[i].userdata, error |-> "SUCCESS",
                                   type |-> "Clock"]],
                    eventsNum |-> <<MatchingCount(sorted)>>,
                    waited |-> sorted[MatchingCount(sorted)].timeout]
             IN Fired(SortClocks(l.clockEvents))
        ELSE [err |-> NoErr, events |-> l.events, eventsNum |-> <<Len(l.events)>>,
              waited |-> 0]
  IN Done(PollLoop(subs, now, <<>>, <<>>))

\* the body of poll_oneoff at the time now: [err, events, eventsNum, waited];
\* eventsNum is empty when no count was written, waited is the delay given to setTimeout
PollOneoffBody(subs, now) ==
  IF subs = <<>> THEN [err |-> RangeError, events |-> <<>>, eventsNum |-> <<>>, waited |-> 0]
  ELSE LET Done(l) ==
             IF l.err # NoErr THEN [err |-> l.err, events |-> l.events, eventsNum |-> <<>>, waited |-> 0]
             ELSE IF l.events = <<>>
             THEN LET Fired(sorted) ==
                        [err |-> NoErr,
                         events |-> [i \in 1..MatchingCount(sorted) |->
                                       [userdata |-> sorted[i].userdata, error |-> "SUCCESS",
                                        type |-> "Clock"]],
                         eventsNum |-> <<MatchingCount(sorted)>>,
                    waited |-> sorted[MatchingCount(sorted)].timeout]
                  IN Fired(SortClocks(l.clockEvents))
             ELSE [err |-> NoErr, events |-> l.events, eventsNum |-> <<Len(l.events)>>,
                   waited |-> 0]
       IN Done(PollLoop(subs, now, <<>>, <<>>))

\* poll_oneoff on the subscriptions subs when the clock shows pos0: size0 is their
\* number, data the events and lens the event count that were written, val the delay
\* given to setTimeout
poll_oneoff(subs, now) ==
  /\ Ready
  /\ \E r \in {PollOneoffBody(subs, now)} :
    /\ Apply(Here, r.err)
    /\ last' = [NoCall EXCEPT !.op = "poll_oneoff", !.errno = Errno(r.err), !.thrown = r.err,
                              !.size0 = Len(subs), !.data = r.events, !.lens = r.eventsNum,
                              !.val = r.waited, !.subs = subs, !.pos0 = now]
    /\ UNCHANGED <<collections, firstNonPreopenFd, stdin, query, handed>>

\* the module defines a struct of the fields desc: data keeps desc, lens the offsets,
\* size0 the size and val the alignment
DefineStruct(desc) ==
  /\ Ready
  /\ Apply(Here, NoErr)
  /\ last' = [NoCall EXCEPT !.op = "struct", !.data = desc, !.lens = struct(desc).offsets,
                            !.size0 = struct(desc).size, !.val = struct(desc).align]
  /\ UNCHANGED <<collections, firstNonPreopenFd, stdin, query, handed>>

\* the module defines a tagged union: data keeps the variants, lens the tag's size,
\* pos0 the payload's offset, size0 the size and val the alignment
DefineUnion(tag, data) ==
  /\ Ready
  /\ Apply(Here, NoErr)
  /\ last' = [NoCall EXCEPT !.op = "taggedUnion", !.data = data, !.lens = <<tag.size>>,
                            !.pos0 = taggedUnion(tag, data).unionOffset,
                            !.size0 = taggedUnion(tag, data).size,
                            !.val = taggedUnion(tag, data).align]
  /\ UNCHANGED <<collections, firstNonPreopenFd, stdin, query, handed>>

\* proc_exit: throw new ExitStatus(code)
proc_exit(code) ==
  /\ Ready
  /\ Apply(Here, ExitStatus(code))
  /\ last' = [NoCall EXCEPT !.op = "proc_exit", !.val = code, !.errno = Errno(ExitStatus(code)), !.thrown = ExitStatus(code)]
  /\ UNCHANGED <<collections, firstNonPreopenFd, stdin, query, handed>>

\* the adapter around an import whose body ends as the backend makes it end: it
\* completes (NoErr) or throws err
Adapter(err) ==
  /\ Ready
  /\ Apply(Here, err)
  /\ last' = [NoCall EXCEPT !.op = "import", !.errno = Errno(err), !.thrown = err]
  /\ UNCHANGED <<collections, firstNonPreopenFd, stdin, query, handed>>

\* _start returns: run resolves to 0
StartReturns ==
  /\ Ready
  /\ run' = [st |-> "returned", code |-> 0]
  /\ last' = [NoCall EXCEPT !.op = "_start"]
  /\ UNCHANGED <<abortSignal, memory, collections, fs, files, nextFd, firstNonPreopenFd, stdin, query, handed>>

\* ------------------------------------------------------------------ reading and writing

\* this._openFiles.get(fd).asFile(): BADF for no entry, ISDIR for a directory
AsFileErr(S, fd) ==
  IF ~Has(S.files, fd) THEN SystemError("BADF")
  ELSE IF ~S.files[fd].isFile THEN SystemError("ISDIR")
  ELSE NoErr

\* a table whose descriptors on one file share one position
WithFileShared(S, f, fd, of) ==
  State(f,
        [x \in DOMAIN S.files \cup {fd} |->
           IF x = fd THEN of
           ELSE IF S.files[x].handle = of.handle
           THEN [S.files[x] EXCEPT !.position = of.position]
           ELSE S.files[x]],
        S.nextFd)

\* the table with the entry of fd replaced by of
WithFile(S, f, fd, of) == State(f, Put(S.files, fd, of), S.nextFd)

\* bufferIn(buffer).read(len): [chunk, rest]
BufferInRead(buffer, len) ==
  [chunk |-> SubSeq(buffer, 1, Min(len, Len(buffer))),
   rest |-> SubSeq(buffer, Min(len, Len(buffer)) + 1, Len(buffer))]

\* _forEachIoVec over the standard input: [n, data, rest]
RECURSIVE StdinVecs(_, _, _, _)
StdinVecs(buffer, lens, total, data) ==
  LET Step(r) ==
        IF Len(r.chunk) < Head(lens)
        THEN [n |-> total + Len(r.chunk), data |-> data \o r.chunk, rest |-> r.rest]
        ELSE StdinVecs(r.rest, Tail(lens), total + Len(r.chunk), data \o r.chunk)
  IN IF lens = <<>> THEN [n |-> total, data |-> data, rest |-> buffer]
     ELSE Step(BufferInRead(buffer, Head(lens)))

\* _forEachIoVec with the callback of fd_read: [err, fs, of, n, data]
RECURSIVE ReadVecs(_, _, _, _, _)
ReadVecs(f, of, lens, total, data) ==
  LET Step(r) ==
        IF r.err # NoErr THEN [err |-> r.err, fs |-> r.fs, of |-> r.of, n |-> total, data |-> data]
        ELSE IF Len(r.chunk) < Head(lens)
        THEN [err |-> NoErr, fs |-> r.fs, of |-> r.of, n |-> total + Len(r.chunk),
              data |-> data \o r.chunk]
        ELSE ReadVecs(r.fs, r.of, Tail(lens), total + Len(r.chunk), data \o r.chunk)
  IN IF lens = <<>> THEN [err |-> NoErr, fs |-> f, of |-> of, n |-> total, data |-> data]
     ELSE Step(ReadFile(f, of, Head(lens)))

\* _forEachIoVec with the callback of fd_write: [err, of, n]
RECURSIVE WriteVecs(_, _, _, _)
WriteVecs(f, of, iovs, total) ==
  LET Step(w) ==
        IF w.err # NoErr THEN [err |-> w.err, of |-> w.of, n |-> total]
        ELSE IF w.n < Len(Head(iovs)) THEN [err |-> NoErr, of |-> w.of, n |-> total + w.n]
        ELSE WriteVecs(f, w.of, Tail(iovs), total + w.n)
  IN IF iovs = <<>> THEN [err |-> NoErr, of |-> of, n |-> total]
     ELSE Step(WriteFile(f, of, Head(iovs)))

RECURSIVE SumLen(_)
SumLen(iovs) == IF iovs = <<>> THEN 0 ELSE Len(Head(iovs)) + SumLen(Tail(iovs))

RECURSIVE Concat(_)
Concat(iovs) == IF iovs = <<>> THEN <<>> ELSE Head(iovs) \o Concat(Tail(iovs))

\* the body of fd_read: [err, S, rest, n, data]. _forEachIoVec makes the view buf
\* before it awaits the callback, and the callback fills it after its await on read:
\* when the memory grew in between (grows), buf.set(chunk) finds the buffer detached
\* and throws a TypeError, after the input was consumed
FdReadBody(S, buffer, fd, lens, grows) ==
  LET FromStdin(in) == [err |-> NoErr, S |-> S, rest |-> in.rest, n |-> in.n, data |-> in.data]
      FromFile(r) ==
        [err |-> r.err, S |-> WithFile(S, r.fs, fd, r.of), rest |-> buffer, n |-> r.n,
         data |-> r.data]
      StaleStdin(c) == [err |-> TypeError, S |-> S, rest |-> c.rest, n |-> 0, data |-> <<>>]
      StaleFile(r) ==
        [err |-> IF r.err # NoErr THEN r.err ELSE TypeError, S |-> WithFile(S, r.fs, fd, r.of),
         rest |-> buffer, n |-> 0, data |-> <<>>]
  IN IF fd = 0
     THEN IF grows /\ lens # <<>> THEN StaleStdin(BufferInRead(buffer, Head(lens)))
          ELSE FromStdin(StdinVecs(buffer, lens, 0, <<>>))
     ELSE IF AsFileErr(S, fd) # NoErr
     THEN [err |-> AsFileErr(S, fd), S |-> S, rest |-> buffer, n |-> 0, data |-> <<>>]
     ELSE IF grows /\ lens # <<>> THEN StaleFile(ReadFile(S.fs, S.files[fd], Head(lens)))
     ELSE FromFile(ReadVecs(S.fs, S.files[fd], lens, 0, <<>>))

\* the body of fd_write: [err, S, n]; descriptors 1 and 2 are the output sinks, which
\* decode the bytes before anything is awaited. _forEachIoVec makes the view data
\* before it awaits the callback, and OpenFile.write hands it to the stream after its
\* await on _getWriter: when the memory grew in between (grows), the view is detached
\* and has no bytes, so nothing is written and the loop ends on the short count
FdWriteBody(S, fd, iovs, grows) ==
  LET ToFile(w) == [err |-> w.err, S |-> WithFile(S, S.fs, fd, w.of), n |-> w.n]
      Stale(w) ==
        IF w.err # NoErr \/ Len(Head(iovs)) > 0 THEN [err |-> w.err, of |-> w.of, n |-> 0]
        ELSE WriteVecs(S.fs, w.of, Tail(iovs), 0)
  IN IF fd \in {1, 2} THEN [err |-> NoErr, S |-> S, n |-> SumLen(iovs)]
     ELSE IF AsFileErr(S, fd) # NoErr THEN [err |-> AsFileErr(S, fd), S |-> S, n |-> 0]
     ELSE IF grows /\ iovs # <<>> THEN ToFile(Stale(WriteFile(S.fs, S.files[fd], <<>>)))
     ELSE ToFile(WriteVecs(S.fs, S.files[fd], iovs, 0))

\* the body of fd_seek: [err, S, position]
FdSeekBody(S, fd, offset, whence) ==
  LET Moved(f, of, base) ==
        [err |-> NoErr, S |-> WithFile(S, f, fd, [of EXCEPT !.position = base + offset]),
         position |-> base + offset]
      FromEnd(g) ==
        IF g.err # NoErr THEN [err |-> g.err, S |-> WithFile(S, g.fs, fd, g.of), position |-> 0]
        ELSE Moved(g.fs, g.of, Len(g.of.file.data))
  IN IF AsFileErr(S, fd) # NoErr THEN [err |-> AsFileErr(S, fd), S |-> S, position |-> 0]
     ELSE CASE whence = "Current" -> Moved(S.fs, S.files[fd], S.files[fd].position)
            [] whence = "End" -> FromEnd(GetFile(S.fs, S.files[fd]))
            [] whence = "Set" -> Moved(S.fs, S.files[fd], 0)

\* the body of fd_tell: [err, position]
FdTellBody(S, fd) ==
  IF AsFileErr(S, fd) # NoErr THEN [err |-> AsFileErr(S, fd), position |-> 0]
  ELSE [err |-> NoErr, position |-> S.files[fd].position]

\* an fd_sync written like fd_datasync: asFile() on whatever the descriptor names
FdSyncBodyStrict(S, fd, strict) ==
  LET Flushed(fl) == [err |-> fl.err, S |-> WithFile(S, fl.fs, fd, fl.of)]
  IN IF ~Has(S.files, fd) THEN [err |-> SystemError("BADF"), S |-> S]
     ELSE IF ~S.files[fd].isFile THEN [err |-> SystemError("ISDIR"), S |-> S]
     ELSE Flushed(Flush(S.fs, S.files[fd]))

\* the body of fd_sync (strict = FALSE) and of fd_datasync (strict = TRUE): [err, S]
FdSyncBody(S, fd, strict) ==
  LET Flushed(fl) == [err |-> fl.err, S |-> WithFile(S, fl.fs, fd, fl.of)]
  IN IF ~Has(S.files, fd) THEN [err |-> SystemError("BADF"), S |-> S]
     ELSE IF ~S.files[fd].isFile
     THEN [err |-> IF strict THEN SystemError("ISDIR") ELSE NoErr, S |-> S]
     ELSE Flushed(Flush(S.fs, S.files[fd]))

\* the body of fd_filestat_set_size: [err, S]
FdSetSizeBody(S, fd, newSize) ==
  LET Sized(r) == [err |-> r.err, S |-> WithFile(S, S.fs, fd, r.of)]
  IN IF AsFileErr(S, fd) # NoErr THEN [err |-> AsFileErr(S, fd), S |-> S]
     ELSE Sized(SetSize(S.fs, S.files[fd], newSize))

\* the body of fd_filestat_get: [err, S, size, isFile]
FdFilestatBody(S, fd) ==
  LET Got(g) ==
        [err |-> g.err, S |-> WithFile(S, g.fs, fd, g.of),
         size |-> IF g.err = NoErr THEN Len(g.of.file.data) ELSE 0, isFile |-> TRUE]
  IN IF ~Has(S.files, fd) THEN [err |-> SystemError("BADF"), S |-> S, size |-> 0, isFile |-> FALSE]
     ELSE IF ~S.files[fd].isFile THEN [err |-> NoErr, S |-> S, size |-> 0, isFile |-> FALSE]
     ELSE Got(GetFile(S.fs, S.files[fd]))

\* the largest position and length any open file or backend file has
Extent(S) ==
  LET ps == {S.files[fd].position : fd \in DOMAIN S.files}
            \cup {Len(S.files[fd].writer.data) : fd \in DOMAIN S.files}
            \cup {Len(S.fs[n].data) : n \in DOMAIN S.fs}
  IN CHOOSE m \in ps : \A q \in ps : q <= m

\* the smallest position any open file has
Lowest(S) ==
  LET ps == {S.files[fd].position : fd \in DOMAIN S.files} \cup {0}
  IN CHOOSE m \in ps : \A q \in ps : m <= q

\* files stay within MaxFileLen bytes and positions within [-MaxIov, MaxFileLen]
InBounds(S) == Extent(S) <= MaxFileLen /\ Lowest(S) >= 0 - MaxIov

fd_read(fd, lens) ==
  /\ Ready
  /\ \E r \in {FdReadBody(Here, stdin, fd, lens, memory.grows)} :
    /\ Apply(r.S, r.err)
    /\ stdin' = r.rest
    /\ last' = [NoCall EXCEPT !.op = "fd_read", !.fd = fd, !.lens = lens, !.errno = Errno(r.err), !.thrown = r.err,
                              !.val = r.n, !.data = r.data, !.pos0 = Position0(fd),
                              !.existed = IF Swap0(fd).has THEN "swap" ELSE "none",
                              !.size0 = IF fd = 0 THEN Len(stdin)
                                        ELSE IF r.err = NoErr THEN Len(r.S.files[fd].file.data)
                                        ELSE 0]
    /\ UNCHANGED <<collections, firstNonPreopenFd, query, handed>>

fd_write(fd, iovs) ==
  /\ Ready
  /\ \E r \in {FdWriteBody(Here, fd, iovs, memory.grows)} :
    /\ InBounds(r.S)
    /\ Apply(r.S, r.err)
    /\ last' = [NoCall EXCEPT !.op = "fd_write", !.fd = fd, !.data = Concat(iovs),
                              !.errno = Errno(r.err), !.thrown = r.err, !.val = r.n, !.pos0 = Position0(fd),
                              !.existed = IF Swap0(fd).has THEN "swap" ELSE "none"]
    /\ UNCHANGED <<collections, firstNonPreopenFd, stdin, query, handed>>

fd_seek(fd, offset, whence) ==
  /\ Ready
  /\ \E r \in {FdSeekBody(Here, fd, offset, whence)} :
    /\ InBounds(r.S)
    /\ Apply(r.S, r.err)
    /\ last' = [NoCall EXCEPT !.op = "fd_seek", !.fd = fd, !.flags = {whence}, !.fd2 = offset,
                              !.errno = Errno(r.err), !.thrown = r.err, !.val = r.position, !.pos0 = Position0(fd)]
    /\ UNCHANGED <<collections, firstNonPreopenFd, stdin, query, handed>>

fd_tell(fd) ==
  /\ Ready
  /\ \E r \in {FdTellBody(Here, fd)} :
    /\ Apply(Here, r.err)
    /\ last' = [NoCall EXCEPT !.op = "fd_tell", !.fd = fd, !.errno = Errno(r.err), !.thrown = r.err,
                              !.val = r.position]
    /\ UNCHANGED <<collections, firstNonPreopenFd, stdin, query, handed>>

fd_sync(fd) ==
  /\ Ready
  /\ \E r \in {FdSyncBody(Here, fd, FALSE)} :
    /\ Apply(r.S, r.err)
    /\ last' = FlushCall("fd_sync", fd, r.err)
    /\ UNCHANGED <<collections, firstNonPreopenFd, stdin, query, handed>>

fd_datasync(fd) ==
  /\ Ready
  /\ \E r \in {FdSyncBody(Here, fd, TRUE)} :
    /\ Apply(r.S, r.err)
    /\ last' = FlushCall("fd_datasync", fd, r.err)
    /\ UNCHANGED <<collections, firstNonPreopenFd, stdin, query, handed>>

fd_filestat_set_size(fd, newSize) ==
  /\ Ready
  /\ \E r \in {FdSetSizeBody(Here, fd, newSize)} :
    /\ InBounds(r.S)
    /\ Apply(r.S, r.err)
    /\ last' = [NoCall EXCEPT !.op = "fd_filestat_set_size", !.fd = fd, !.fd2 = newSize,
                              !.errno = Errno(r.err), !.thrown = r.err]
    /\ UNCHANGED <<collections, firstNonPreopenFd, stdin, query, handed>>

fd_filestat_get(fd) ==
  /\ Ready
  /\ \E r \in {FdFilestatBody(Here, fd)} :
    /\ Apply(r.S, r.err)
    /\ last' = [NoCall EXCEPT !.op = "fd_filestat_get", !.fd = fd, !.errno = Errno(r.err), !.thrown = r.err,
                              !.val = r.size]
    /\ UNCHANGED <<collections, firstNonPreopenFd, stdin, query, handed>>

\* ------------------------------------------------------------------ reading a directory

\* dirent_t.size: 8 + 8 + 4 + 1 bytes, aligned to 8
DirentSize == 24

\* the dirent_t written for an entry, and the name after it
Dirent(e, next) == [name |-> e.name, next |-> next, isFile |-> e.isFile]

\* this._openFiles.get(fd).asDir(): BADF for no entry, NOTDIR for a file
AsDirErr(S, fd) ==
  IF ~Has(S.files, fd) THEN SystemError("BADF")
  ELSE IF S.files[fd].isFile THEN SystemError("NOTDIR")
  ELSE NoErr

\* the loop of fd_readdir in bindings.ts: counter counts the entries passed, cookie
\* the entries skipped and written
RECURSIVE ReaddirLoop(_, _, _, _, _)
ReaddirLoop(entries, counter, cookie, bufLen, out) ==
  IF counter >= Len(entries) THEN out
  ELSE IF counter < cookie THEN ReaddirLoop(entries, counter + 1, cookie, bufLen, out)
  ELSE IF bufLen < DirentSize + Len(entries[counter + 1].name) THEN out
  ELSE ReaddirLoop(entries, counter + 1, cookie + 1,
                   bufLen - (DirentSize + Len(entries[counter + 1].name)),
                   Append(out, Dirent(entries[counter + 1], cookie + 1)))

\* the body of fd_readdir in bindings.ts: [err, S, out]
FdReaddirBody(S, fd, bufLen, cookie) ==
  IF AsDirErr(S, fd) # NoErr THEN [err |-> AsDirErr(S, fd), S |-> S, out |-> <<>>]
  ELSE [err |-> NoErr, S |-> S,
        out |-> ReaddirLoop(BackendEntries(S.fs, S.files[fd].handle), 0, cookie, bufLen, <<>>)]

\* OpenDirectory.getEntries(start) of the resumable enumerator: the iterator to use
\* and the entries its first next() still has to skip
GetEntries(of, start) ==
  IF of.iter.has /\ of.iter.pos = start THEN [iter |-> of.iter, start |-> 0]
  ELSE [iter |-> [has |-> TRUE, pos |-> 0, at |-> 0, reverted |-> <<>>], start |-> start]

\* next() of the enumerator: [iter, done, value]; at counts what the underlying
\* iterator has yielded
IterNext(entries, iter, start) ==
  LET Skipped(at) ==
        IF iter.reverted # <<>>
        THEN [iter |-> [iter EXCEPT !.at = at, !.reverted = <<>>, !.pos = iter.pos + 1],
              done |-> FALSE, value |-> iter.reverted[1]]
        ELSE IF at < Len(entries)
        THEN [iter |-> [iter EXCEPT !.at = at + 1, !.pos = iter.pos + 1],
              done |-> FALSE, value |-> entries[at + 1]]
        ELSE [iter |-> [iter EXCEPT !.at = at], done |-> TRUE,
              value |-> [name |-> <<>>, isFile |-> FALSE]]
  IN Skipped(Min(iter.at + start, Len(entries)))

\* a revert that steps back without keeping the handle
IterRevertLost(iter, handle) ==
  IF iter.reverted # <<>> \/ iter.pos = 0 THEN [err |-> PlainError, iter |-> iter]
  ELSE [err |-> NoErr, iter |-> [iter EXCEPT !.pos = iter.pos - 1]]

\* revert(handle) of the enumerator: [err, iter]
IterRevert(iter, handle) ==
  IF iter.reverted # <<>> \/ iter.pos = 0 THEN [err |-> PlainError, iter |-> iter]
  ELSE [err |-> NoErr, iter |-> [iter EXCEPT !.pos = iter.pos - 1, !.reverted = <<handle>>]]

\* the loop of fd_readdir in browser.ts: [err, iter, out, stopped]; stopped holds the
\* handle the loop gave back to the enumerator, if any
RECURSIVE ResumeLoop(_, _, _, _, _, _)
ResumeLoop(entries, iter, start, cookie, bufLen, out) ==
  LET Reverted(r, handle) ==
        [err |-> r.err, iter |-> r.iter, out |-> out, stopped |-> <<handle>>]
      Step(n) ==
        IF n.done THEN [err |-> NoErr, iter |-> n.iter, out |-> out, stopped |-> <<>>]
        ELSE IF bufLen < DirentSize + Len(n.value.name)
        THEN Reverted(IterRevert(n.iter, n.value), n.value)
        ELSE ResumeLoop(entries, n.iter, 0, cookie + 1,
                        bufLen - (DirentSize + Len(n.value.name)),
                        Append(out, Dirent(n.value, cookie + 1)))
  IN Step(IterNext(entries, iter, start))

\* the body of fd_readdir in browser.ts: [err, S, out, stopped]
FdReaddirResumeBody(S, fd, bufLen, cookie) ==
  LET Looped(r) ==
        [err |-> r.err,
         S |-> State(S.fs, Put(S.files, fd, [S.files[fd] EXCEPT !.iter = r.iter]), S.nextFd),
         out |-> r.out, stopped |-> r.stopped]
      Entered(g) ==
        Looped(ResumeLoop(BackendEntries(S.fs, S.files[fd].handle), g.iter, g.start, cookie,
                          bufLen, <<>>))
  IN IF AsDirErr(S, fd) # NoErr
     THEN [err |-> AsDirErr(S, fd), S |-> S, out |-> <<>>, stopped |-> <<>>]
     ELSE Entered(GetEntries(S.files[fd], cookie))

\* bufPtr - initialBufPtr
BufUsed(out) == Len(out) * DirentSize + Total([i \in 1..Len(out) |-> Len(out[i].name)])

\* the guest runs, or has just been answered by op and calls it again at once
Calling(op) == run.st = "running" /\ last.op \in {"none", op}

fd_readdir(fd, bufLen, cookie) ==
  /\ Calling("fd_readdir")
  /\ \E r \in {FdReaddirBody(Here, fd, bufLen, cookie)} :
    /\ Apply(r.S, r.err)
    /\ last' = [NoCall EXCEPT !.op = "fd_readdir", !.fd = fd, !.pos0 = cookie, !.size0 = bufLen,
                              !.errno = Errno(r.err), !.thrown = r.err, !.data = r.out, !.val = BufUsed(r.out)]
    /\ UNCHANGED <<collections, firstNonPreopenFd, stdin, query, handed>>

\* fd_readdir of browser.ts, on the resumable enumerator
fd_readdir_resumable(fd, bufLen, cookie) ==
  /\ Calling("fd_readdir")
  /\ \E r \in {FdReaddirResumeBody(Here, fd, bufLen, cookie)} :
    /\ Apply(r.S, r.err)
    /\ last' = [NoCall EXCEPT !.op = "fd_readdir", !.fd = fd, !.pos0 = cookie, !.size0 = bufLen,
                              !.errno = Errno(r.err), !.thrown = r.err, !.data = r.out, !.val = BufUsed(r.out),
                              !.stopped = r.stopped]
    /\ UNCHANGED <<collections, firstNonPreopenFd, stdin, query, handed>>

\* ------------------------------------------------------------------ what the guest may ask

\* the descriptors a guest tries: the standard three, the preopens, those path_open
\* may hand out, and one beyond
Fds == 0..(FIRST_PREOPEN_FD + Len(PreOpens) + MaxOpens)

Components == {D_, F_, Dot, DotDot}

RECURSIVE SeqsUpTo(_, _)
SeqsUpTo(set, n) ==
  IF n = 0 THEN {<<>>}
  ELSE LET shorter == SeqsUpTo(set, n - 1) IN
       shorter \cup {Append(q, x) : q \in {r \in shorter : Len(r) = n - 1}, x \in set}

\* the guest paths: at most MaxPathLen components joined by '/', and the empty path
Paths == {JoinPath(parts) : parts \in SeqsUpTo(Components, MaxPathLen)}

ExitCodes == {0, 1, 120}

\* ------------------------------------------------------------------ the descriptor table

TablePaths == {F_, D_}

Next ==
  \/ \E dirFd \in Fds, path \in TablePaths : path_open(dirFd, path, {}, {})
  \/ \E fd \in Fds : fd_close(fd)
  \/ \E from \in Fds, to \in Fds : fd_renumber(from, to)
  \/ \E code \in ExitCodes : proc_exit(code)
  \/ StartReturns
  \/ Return

Spec == Init /\ [][Next]_vars

\* the buffer lengths a guest passes to fd_prestat_dir_name
NameLens == 1..(MaxPathLen + 1)

\* a guest that asks which descriptors are preopens while it opens, closes and
\* renumbers descriptors
NextPrestat ==
  \/ \E path \in TablePaths : path_open(FIRST_PREOPEN_FD, path, {}, {})
  \/ \E fd \in Fds : fd_close(fd)
  \/ \E from \in Fds, to \in Fds : fd_renumber(from, to)
  \/ \E fd \in Fds : fd_prestat_get(fd)
  \/ \E fd \in Fds, pathLen \in NameLens : fd_prestat_dir_name(fd, pathLen)
  \/ Return

SpecPrestat == Init /\ [][NextPrestat]_vars

\* ------------------------------------------------------------------ the adapter

\* the members of E that a SystemError carries
ErrorCodes ==
  {"ACCES", "BADF", "CANCELED", "EXIST", "INVAL", "ISDIR", "NOENT", "NOSYS", "NOTDIR",
   "NOTEMPTY", "NOTCAPABLE"}

\* the names of the exceptions a backend throws
BackendNames ==
  {"NotFoundError", "NotAllowedError", "DataCloneError", "SecurityError",
   "InvalidModificationError", "AbortError", "TypeMismatchError", "QuotaExceededError",
   "InvalidStateError"}

\* how the body of an import ends
Outcomes ==
  {NoErr, TypeError, RangeError, PlainError}
    \cup {SystemError(code) : code \in ErrorCodes}
    \cup {DOMException(name) : name \in BackendNames}
    \cup {ExitStatus(code) : code \in ExitCodes}

\* a guest that uses the descriptor table over a backend that may fail in any way
NextAdapter ==
  \/ \E err \in Outcomes : Adapter(err)
  \/ \E dirFd \in Fds, path \in TablePaths : path_open(dirFd, path, {}, {})
  \/ \E fd \in Fds : fd_close(fd)
  \/ \E code \in ExitCodes : proc_exit(code)
  \/ Return

SpecAdapter == Init /\ [][NextAdapter]_vars

\* ------------------------------------------------------------------ arguments and environment

\* the arguments an embedder configures: ASCII ones, and one outside ASCII
ArgStrings == {<<"a">>, <<"-", "b">>, <<EAcute>>}

\* the environment entries an embedder configures
EnvEntries ==
  {[key |-> <<"K">>, value |-> <<"v">>], [key |-> <<"L">>, value |-> <<EAcute>>]}

\* where the guest puts the buffers
BufPtrs == {0, 8}

\* the embedder configures at most MaxArgs arguments and entries, or what the tests
\* configure
InitArgs ==
  /\ \E argv \in SeqsUpTo(ArgStrings, MaxArgs) \cup {TestArgs},
        env \in SeqsUpTo(EnvEntries, MaxArgs) \cup {TestEnv} :
       collections = Configure(argv, env)
  /\ fs = Construct(InitFs, PreOpens).fs
  /\ files = Construct(InitFs, PreOpens).files
  /\ nextFd = Construct(InitFs, PreOpens).nextFd
  /\ firstNonPreopenFd = Construct(InitFs, PreOpens).nextFd
  /\ stdin = StdinBytes
  /\ run = [st |-> "running", code |-> 0]
  /\ memory = InitMemory
  /\ abortSignal = NoAbort
  /\ last = NoCall
  /\ handed = <<>>
  /\ query = NoQuery

\* a guest that reads its arguments and its environment
NextArgs ==
  \/ args_sizes_get
  \/ \E ptr \in BufPtrs : args_get(ptr)
  \/ environ_sizes_get
  \/ \E ptr \in BufPtrs : environ_get(ptr)
  \/ Return

SpecArgs == InitArgs /\ [][NextArgs]_vars

\* ------------------------------------------------------------------ reading and writing files

\* a guest buffer of n bytes to write: 5, 6, ...
Bytes(n) == [i \in 1..n |-> 4 + i]

\* the iovec lists a guest writes: one iovec of each length, and two iovecs
WriteIovs == {<<Bytes(n)>> : n \in 1..MaxIov} \cup {<<Bytes(1), Bytes(1)>>}

\* the iovec lengths a guest reads into
ReadLens == {<<n>> : n \in 1..MaxIov} \cup {<<1, MaxIov>>, <<0, 1>>}

Whences == {"Current", "End", "Set"}
Offsets == {0 - 1, 0, 1}

\* the descriptors path_open hands out, and the one after them
Opened == firstNonPreopenFd..(firstNonPreopenFd + MaxOpens)

\* no file is open: the guest of these specifications holds one file at a time
NoneOpen == \A fd \in DOMAIN files : fd < firstNonPreopenFd

\* a guest that works on the file f of the preopened directory, one descriptor at a time
NextIO ==
  \/ NoneOpen /\ path_open(FIRST_PREOPEN_FD, F_, {}, {})
  \/ \E fd \in {FIRST_PREOPEN_FD} \cup Opened, lens \in ReadLens : fd_read(fd, lens)
  \/ \E fd \in {1, FIRST_PREOPEN_FD} \cup Opened, iovs \in WriteIovs : fd_write(fd, iovs)
  \/ \E fd \in Opened, offset \in Offsets, whence \in Whences : fd_seek(fd, offset, whence)
  \/ \E fd \in Opened : fd_tell(fd)
  \/ \E fd \in {FIRST_PREOPEN_FD} \cup Opened : fd_sync(fd)
  \/ \E fd \in {FIRST_PREOPEN_FD} \cup Opened : fd_datasync(fd)
  \/ \E fd \in Opened : fd_close(fd)
  \/ Return

SpecIO == Init /\ [][NextIO]_vars

\* a guest that only reads: its standard input and the file f of the preopened directory
NextRead ==
  \/ NoneOpen /\ path_open(FIRST_PREOPEN_FD, F_, {}, {})
  \/ \E fd \in {0, FIRST_PREOPEN_FD} \cup Opened, lens \in ReadLens : fd_read(fd, lens)
  \/ \E fd \in Opened, offset \in Offsets, whence \in Whences : fd_seek(fd, offset, whence)
  \/ \E fd \in Opened : fd_close(fd)
  \/ Return

SpecRead == Init /\ [][NextRead]_vars

\* a guest that creates the file g, writes it, resizes it and flushes it
NextCreate ==
  \/ NoneOpen /\ path_open(FIRST_PREOPEN_FD, G_, {"Create"}, {})
  \/ \E fd \in Opened, iovs \in WriteIovs : fd_write(fd, iovs)
  \/ \E fd \in Opened, offset \in Offsets : fd_seek(fd, offset, "Set")
  \/ \E fd \in Opened, size \in 0..MaxFileLen : fd_filestat_set_size(fd, size)
  \/ \E fd \in {FIRST_PREOPEN_FD} \cup Opened : fd_sync(fd)
  \/ \E fd \in {FIRST_PREOPEN_FD} \cup Opened : fd_datasync(fd)
  \/ \E fd \in Opened : fd_close(fd)
  \/ Return

SpecCreate == Init /\ [][NextCreate]_vars

\* a guest that writes, resizes, reads, stats and flushes the file f, one descriptor
\* at a time
NextWriter ==
  \/ NoneOpen /\ path_open(FIRST_PREOPEN_FD, F_, {}, {})
  \/ \E fd \in Opened, iovs \in {<<Bytes(1)>>, <<Bytes(1), Bytes(1)>>} : fd_write(fd, iovs)
  \/ \E fd \in Opened, size \in {0, 1} : fd_filestat_set_size(fd, size)
  \/ \E fd \in Opened : fd_read(fd, <<1>>)
  \/ \E fd \in Opened : fd_filestat_get(fd)
  \/ \E fd \in Opened, whence \in {"End", "Set"} : fd_seek(fd, 0, whence)
  \/ \E fd \in Opened : fd_sync(fd)
  \/ \E fd \in Opened : fd_datasync(fd)
  \/ \E fd \in Opened : fd_close(fd)
  \/ Return

SpecWriter == Init /\ [][NextWriter]_vars

\* a guest that holds several descriptors on the file f at once
NextShared ==
  \/ path_open(FIRST_PREOPEN_FD, F_, {}, {})
  \/ \E fd \in Opened : fd_read(fd, <<MaxIov>>)
  \/ \E fd \in Opened : fd_write(fd, <<Bytes(1)>>)
  \/ \E fd \in Opened : fd_seek(fd, 1, "Set")
  \/ Return

SpecShared == Init /\ [][NextShared]_vars

\* a guest that holds two descriptors on the file f, reads and stats it through
\* both, writes it and commits what it wrote with fd_sync
NextCommit ==
  \/ Cardinality(DOMAIN files) < Cardinality(DOMAIN PreOpens) + 2
       /\ path_open(FIRST_PREOPEN_FD, F_, {}, {})
  \/ \E fd \in Opened : fd_read(fd, <<MaxIov>>)
  \/ \E fd \in Opened : fd_filestat_get(fd)
  \/ \E fd \in Opened : fd_write(fd, <<Bytes(1)>>)
  \/ \E fd \in Opened : fd_seek(fd, 0, "Set")
  \/ \E fd \in Opened : fd_sync(fd)
  \/ Return

SpecCommit == Init /\ [][NextCommit]_vars

\* ------------------------------------------------------------------ paths below a preopen

\* the backend has room for what the call created
HasRoom == Cardinality(DOMAIN fs') <= MaxEntries

\* a guest that opens, stats, creates and removes entries of the first preopen by
\* path, holding one descriptor at a time
NextPath ==
  \/ \E path \in Paths, oFlags \in {{}, {"Create", "Exclusive"}} :
       NoneOpen /\ path_open(FIRST_PREOPEN_FD, path, oFlags, {}) /\ HasRoom
  \/ \E path \in Paths : path_filestat_get(FIRST_PREOPEN_FD, path)
  \/ \E path \in Paths : path_create_directory(FIRST_PREOPEN_FD, path) /\ HasRoom
  \/ \E path \in Paths : path_remove_directory(FIRST_PREOPEN_FD, path)
  \/ \E path \in Paths : path_unlink_file(FIRST_PREOPEN_FD, path)
  \/ \E fd \in Opened : fd_close(fd)
  \/ Return

SpecPath == Init /\ [][NextPath]_vars

\* a guest that opens entries of the first preopen by path, with and without CREATE,
\* holding one descriptor at a time
NextOpen ==
  \/ \E path \in Paths, oFlags \in {{}, {"Create"}} :
       NoneOpen /\ path_open(FIRST_PREOPEN_FD, path, oFlags, {}) /\ HasRoom
  \/ \E path \in Paths : path_unlink_file(FIRST_PREOPEN_FD, path)
  \/ \E fd \in Opened : fd_close(fd)
  \/ Return

SpecOpen == Init /\ [][NextOpen]_vars

\* a guest that writes the file f and the new file g and ends, by returning from
\* _start or by proc_exit, with or without having flushed or closed them
NextExit ==
  \/ \E path \in {F_, G_} :
       NoneOpen /\ path_open(FIRST_PREOPEN_FD, path, {"Create"}, {}) /\ HasRoom
  \/ \E fd \in Opened, iovs \in {<<Bytes(1)>>, <<Bytes(1), Bytes(1)>>} : fd_write(fd, iovs)
  \/ \E fd \in Opened : fd_sync(fd)
  \/ \E fd \in Opened : fd_close(fd)
  \/ \E code \in ExitCodes : proc_exit(code)
  \/ StartReturns
  \/ Return

SpecExit == Init /\ [][NextExit]_vars

\* the open flags of path_open
OpenFlagNames == {"Create", "Directory", "Exclusive", "Truncate"}

\* a guest that opens a file, a directory and a missing name of the first preopen
\* with every combination of open flags, holding one descriptor at a time
NextFlags ==
  \/ \E path \in {F_, D_, G_}, oFlags \in SUBSET OpenFlagNames :
       NoneOpen /\ path_open(FIRST_PREOPEN_FD, path, oFlags, {}) /\ HasRoom
  \/ path_unlink_file(FIRST_PREOPEN_FD, G_)
  \/ \E fd \in Opened : fd_close(fd)
  \/ Return

SpecFlags == Init /\ [][NextFlags]_vars

\* a guest that passes every descriptor as dir_fd, also the directory it opened, and
\* asks for file status flags
NextDirFd ==
  \/ \E dirFd \in Fds, path \in {F_, D_, G_}, oFlags \in {{}, {"Create"}},
        fsFlags \in {{}, {"NonBlock"}, {"Append"}} :
       /\ NoneOpen \/ ~IsPreOpenFd(dirFd, firstNonPreopenFd)
       /\ path_open(dirFd, path, oFlags, fsFlags)
       /\ HasRoom
  \/ \E dirFd \in Fds, path \in {F_, D_, G_} : path_filestat_get(dirFd, path)
  \/ \E dirFd \in Fds : path_create_directory(dirFd, G_) /\ HasRoom
  \/ \E dirFd \in Fds, path \in {F_, G_} : path_remove_directory(dirFd, path)
  \/ \E dirFd \in Fds, path \in {F_, G_} : path_unlink_file(dirFd, path)
  \/ \E fd \in Opened : fd_close(fd)
  \/ Return

SpecDirFd == Init /\ [][NextDirFd]_vars

\* ------------------------------------------------------------------ resolving a path to a preopen

Abs(parts) == <<"/">> \o JoinPath(parts)

\* the directories an embedder preopens, under the names it gives them: [path, handle]
RelPreOpens ==
  { [path |-> Abs(<<S_>>), handle |-> <<S_>>],
    [path |-> Abs(<<S_>>) \o <<"/">>, handle |-> <<S_>>],
    [path |-> Abs(<<S_, D_>>), handle |-> <<S_, D_>>],
    [path |-> Abs(<<T_>>), handle |-> <<T_>>],
    [path |-> Dot, handle |-> <<S_>>],
    [path |-> S_, handle |-> <<S_>>],
    [path |-> JoinPath(<<Dot, S_>>), handle |-> <<S_>>] }

\* the preopen records of at most n directories, in the order of registration
RECURSIVE PreOpenLists(_)
PreOpenLists(n) ==
  IF n = 0 THEN {<<>>}
  ELSE LET shorter == PreOpenLists(n - 1) IN
       shorter \cup {Append(q, x) : q \in {r \in shorter : Len(r) = n - 1},
                                     x \in RelPreOpens}

\* no path is registered twice: the preopens are the keys of one record
DistinctPaths(pre) ==
  \A i \in 1..Len(pre) : \A j \in 1..Len(pre) : i # j => pre[i].path # pre[j].path

\* the paths an embedder asks findRelPath about
RelPaths ==
  { Abs(<<S_>>), Abs(<<S_, D_>>), Abs(<<S_, D_, F_>>), Abs(<<S_, F_>>), Abs(<<S_ \o D_>>),
    Abs(<<S_, <<>>, F_>>), Abs(<<T_>>), Abs(<<T_, F_>>), <<"/">>,
    JoinPath(<<S_, F_>>), S_, F_, Dot, JoinPath(<<Dot, F_>>) }

InitRel ==
  \E pre \in {q \in PreOpenLists(MaxPreOpens) : q # <<>> /\ DistinctPaths(q)} :
    /\ fs = Construct(InitFs, pre).fs
    /\ files = Construct(InitFs, pre).files
    /\ nextFd = Construct(InitFs, pre).nextFd
    /\ firstNonPreopenFd = Construct(InitFs, pre).nextFd
    /\ stdin = StdinBytes
    /\ run = [st |-> "running", code |-> 0]
    /\ memory = InitMemory
    /\ abortSignal = NoAbort
    /\ last = NoCall
    /\ handed = <<>>
    /\ query = NoQuery
    /\ collections = Configure(TestArgs, TestEnv)

\* the embedder asks which preopen a path belongs to; what findRelPath throws goes
\* to the embedder
findRelPath(path) ==
  /\ Ready
  /\ \E r \in {FindRelPath(files, firstNonPreopenFd, path)} :
       query' = [path |-> path, pre |-> IF r.err = NoErr THEN files[r.fd].path ELSE <<>>,
                 found |-> r.err = NoErr, fd |-> r.fd, relativePath |-> r.relativePath]
  /\ UNCHANGED <<abortSignal, memory, collections, fs, files, nextFd, firstNonPreopenFd, stdin, run, last, handed>>

NextRel == \E path \in RelPaths : findRelPath(path)

SpecRel == InitRel /\ [][NextRel]_vars

\* ------------------------------------------------------------------ listing directories

\* buffers too small for any entry, for one entry and for two
BufLens == {DirentSize, DirentSize + 1, 2 * (DirentSize + 1)}

Cookies == 0..MaxCookie

\* the descriptors a guest lists: the preopens, and one that is not open
DirFds == FIRST_PREOPEN_FD..firstNonPreopenFd

\* a guest that lists directories with the fd_readdir of bindings.ts
NextDir ==
  \/ \E fd \in DirFds, bufLen \in BufLens, cookie \in Cookies : fd_readdir(fd, bufLen, cookie)
  \/ Return

SpecDir == Init /\ [][NextDir]_vars

\* a guest that lists directories with the fd_readdir of browser.ts
NextDirResumable ==
  \/ \E fd \in DirFds, bufLen \in BufLens, cookie \in Cookies :
       fd_readdir_resumable(fd, bufLen, cookie)
  \/ Return

SpecDirResumable == Init /\ [][NextDirResumable]_vars

\* ------------------------------------------------------------------ every call on every descriptor

\* the descriptors this guest names: the first preopen, those path_open hands out
\* (open or closed again), and one never handed out
KindFds == {FIRST_PREOPEN_FD} \cup Opened

\* a guest that opens the file f and the directory d and tries every descriptor call
\* on every descriptor, whatever it refers to
NextKind ==
  \/ \E path \in TablePaths : NoneOpen /\ path_open(FIRST_PREOPEN_FD, path, {}, {})
  \/ \E fd \in KindFds : fd_read(fd, <<1>>)
  \/ \E fd \in KindFds : fd_write(fd, <<Bytes(1)>>)
  \/ \E fd \in KindFds : fd_seek(fd, 1, "Set")
  \/ \E fd \in KindFds : fd_tell(fd)
  \/ \E fd \in KindFds : fd_sync(fd)
  \/ \E fd \in KindFds : fd_datasync(fd)
  \/ \E fd \in KindFds : fd_filestat_set_size(fd, 1)
  \/ \E fd \in KindFds : fd_filestat_get(fd)
  \/ \E fd \in KindFds : fd_readdir(fd, DirentSize + 1, 0)
  \/ \E fd \in Opened : fd_close(fd)
  \/ Return

SpecKind == Init /\ [][NextKind]_vars

\* ------------------------------------------------------------------ polling

\* the subscriptions a guest passes: clocks in milliseconds, descriptors, and a tag
\* that is no event type
Subscriptions ==
  [tag : {"Clock"}, userdata : {1, 2}, timeout : {1, 3}, precision : {0, 2},
   flags : {"Relative", "Absolute"}]
    \cup [tag : {"FdRead", "FdWrite", "other"}, userdata : {1, 2}, timeout : {0},
          precision : {0}, flags : {"Relative"}]

\* what the clock shows when the guest polls
Nows == {0, 2}

\* a guest that polls while it opens and closes a file or a directory
NextPoll ==
  \/ NoneOpen /\ \E path \in TablePaths : path_open(FIRST_PREOPEN_FD, path, {}, {})
  \/ \E fd \in Opened : fd_close(fd)
  \/ Ready /\ \E subs \in SeqsUpTo(Subscriptions, MaxSubs), now \in Nows : poll_oneoff(subs, now)
  \/ Return

SpecPoll == Init /\ [][NextPoll]_vars

\* ------------------------------------------------------------------ laying out memory

\* the number types of the module
StdTypes == {std(1), std(2), std(4), std(8)}

\* the descriptors a field or a variant has: number types and structs
TypeDescs == StdTypes \cup {iovec_t, fdstat_t}

\* a module that defines structs of at most MaxFields fields and tagged unions of at
\* most MaxVariants variants
NextLayout ==
  \/ \E desc \in SeqsUpTo(TypeDescs, MaxFields) : DefineStruct(desc)
  \/ \E tag \in StdTypes, data \in SeqsUpTo(TypeDescs, MaxVariants) \ {<<>>} :
       DefineUnion(tag, data)
  \/ Return

SpecLayout == Init /\ [][NextLayout]_vars

\* ------------------------------------------------------------------ a memory that grows

\* the embedder's side is about to grow the guest's memory: it will, the next time
\* a handler is suspended, and the buffer the handler had until then is detached
memory_grow ==
  /\ Ready
  /\ ~memory.grows
  /\ memory.buffer < MaxGrows
  /\ memory' = [memory EXCEPT !.grows = TRUE]
  /\ UNCHANGED <<abortSignal, collections, fs, files, nextFd, firstNonPreopenFd, stdin, run, last, handed, query>>

\* the subscriptions of a guest that waits on one clock or asks for a descriptor
FewSubscriptions ==
  {<<s>> : s \in {t \in Subscriptions : t.userdata = 1 /\ t.precision = 0}}

\* a guest that opens, reads, writes, lists and polls while its memory grows
NextMemory ==
  \/ \E path \in TablePaths, oFlags \in {{}, {"Create"}} :
       NoneOpen /\ path_open(FIRST_PREOPEN_FD, path, oFlags, {})
  \/ \E fd \in {0} \cup Opened, lens \in ReadLens : fd_read(fd, lens)
  \/ \E fd \in {1} \cup Opened, iovs \in WriteIovs : fd_write(fd, iovs)
  \/ \E fd \in DirFds, bufLen \in BufLens : fd_readdir(fd, bufLen, 0)
  \/ \E subs \in FewSubscriptions : poll_oneoff(subs, 0)
  \/ \E fd \in Opened : fd_close(fd)
  \/ memory_grow
  \/ Return

SpecMemory == Init /\ [][NextMemory]_vars

\* ------------------------------------------------------------------ interrupting the guest

\* Ctrl-C in the terminal: abortController.abort() runs when the event loop next does
ctrl_c ==
  /\ Ready
  /\ abortSignal = NoAbort
  /\ abortSignal' = [abortSignal EXCEPT !.fires = TRUE]
  /\ UNCHANGED <<memory, collections, fs, files, nextFd, firstNonPreopenFd, stdin, run, last,
                 handed, query>>

\* the subscriptions of a guest that sleeps
Clocks == {s \in Subscriptions : s.tag = "Clock"}

\* a guest that sleeps and lists directories, and a user who interrupts it
NextAbort ==
  \/ Ready /\ \E subs \in SeqsUpTo(Clocks, MaxSubs) \ {<<>>}, now \in Nows : poll_oneoff(subs, now)
  \/ \E fd \in DirFds, bufLen \in BufLens, cookie \in Cookies : fd_readdir(fd, bufLen, cookie)
  \/ ctrl_c
  \/ Return

SpecAbort == Init /\ [][NextAbort]_vars

\* ------------------------------------------------------------------ claims on the table

\* C2: every descriptor path_open returns is at least firstNonPreopenFd and strictly
\* greater than every descriptor returned before it, so no value is handed out twice;
\* and the descriptor the next open will return is never a live entry of the table,
\* so an open never overwrites one.
C2_DescriptorsStrictlyIncrease ==
  /\ \A i \in 1..Len(handed) : handed[i] >= firstNonPreopenFd /\ handed[i] < nextFd
  /\ \A i \in 1..Len(handed) : \A j \in 1..Len(handed) : i < j => handed[i] < handed[j]
  /\ \A fd \in DOMAIN files : fd < nextFd

\* a second open succeeded after the first descriptor had been closed or renumbered away
C2_Witness ==
  /\ last.op = "path_open" /\ last.errno = "SUCCESS"
  /\ Len(handed) = 2
  /\ handed[1] \notin DOMAIN files
  /\ last.val = handed[2]

\* C10: proc_exit(code) is not answered with an errno: the run ends there and resolves
\* to exactly code; a run whose _start returns resolves to 0; and once the run has
\* ended the last import called is still the one that ended it, no handler ran after.
C10_ExitEndsTheRun ==
  /\ last.op = "proc_exit" => run = [st |-> "returned", code |-> last.val]
  /\ last.op = "_start" => run = [st |-> "returned", code |-> 0]
  /\ run.st = "returned" => last.op \in {"proc_exit", "_start"}
  /\ run.st = "returned" /\ last.op = "proc_exit" => last.errno = "THROW"

\* the guest opened a file and then called proc_exit(120)
C10_Witness ==
  /\ last.op = "proc_exit" /\ last.val = 120
  /\ run = [st |-> "returned", code |-> 120]
  /\ handed # <<>>

\* ------------------------------------------------------------------ claims on reading and writing

\* the call just answered was made on a regular file that is still open
OnOpenFile == Has(files, last.fd) /\ files[last.fd].isFile

\* C4: when fd_write on an open regular file is answered SUCCESS, the count it reports
\* is the sum of the iovec lengths and the file's position is its position before the
\* call plus that count; fd_tell and fd_seek(fd, 0, CURRENT) report the stored position
\* and leave it where it is.
C4_WriteAdvancesPosition ==
  /\ (last.op = "fd_write" /\ last.errno = "SUCCESS" /\ OnOpenFile) =>
       /\ last.val = Len(last.data)
       /\ files[last.fd].position = last.pos0 + last.val
  /\ (last.op = "fd_tell" /\ last.errno = "SUCCESS") =>
       last.val = files[last.fd].position
  /\ (last.op = "fd_seek" /\ last.errno = "SUCCESS" /\ last.flags = {"Current"} /\ last.fd2 = 0) =>
       last.val = last.pos0 /\ files[last.fd].position = last.pos0

\* two bytes were written at position 1: the position is 3
C4_Witness ==
  /\ last.op = "fd_write" /\ last.errno = "SUCCESS" /\ OnOpenFile
  /\ last.pos0 = 1 /\ last.val = 2
  /\ files[last.fd].position = 3

\* C7: when fd_write on a file is answered SUCCESS the bytes are in the descriptor's
\* swap at the position written, and on a new empty file written from position 0 the
\* swap is exactly those bytes; when fd_close, fd_sync or fd_datasync is answered
\* SUCCESS on a descriptor that held a swap, the backend file's content is that swap
\* and the descriptor's writer is closed.
C7_FlushCommitsWrittenBytes ==
  /\ (last.op = "fd_write" /\ last.errno = "SUCCESS" /\ OnOpenFile) =>
       /\ files[last.fd].writer.has
       /\ SubSeq(files[last.fd].writer.data, last.pos0 + 1, last.pos0 + last.val) = last.data
       /\ (last.existed = "none" /\ last.pos0 = 0 /\ fs[files[last.fd].handle].data = <<>>) =>
            files[last.fd].writer.data = last.data
  /\ (last.op \in {"fd_close", "fd_sync", "fd_datasync"} /\ last.errno = "SUCCESS"
        /\ last.existed = "swap") =>
       /\ IsFileNode(fs, last.walked[1])
       /\ fs[last.walked[1]].data = last.data
       /\ Has(files, last.fd) => ~files[last.fd].writer.has

\* the new file g was written and closed: the backend holds the bytes written
C7_Witness ==
  /\ last.op = "fd_close" /\ last.errno = "SUCCESS" /\ last.existed = "swap"
  /\ last.walked = << <<S_, G_>> >>
  /\ last.data = Bytes(MaxIov)
  /\ fs[<<S_, G_>>].data = Bytes(MaxIov)

\* C8: an fd_read on a file that is answered SUCCESS delivers
\* min(sum of the iovec lengths, bytes left after the position) bytes, those are the
\* bytes of the file that follow the position, and the position advances by that
\* count; an fd_read on the standard input delivers the next of the configured bytes,
\* as many as the iovecs take, and nothing once they are used up.
C8_ReadDeliversTheNextBytes ==
  /\ (last.op = "fd_read" /\ last.errno = "SUCCESS" /\ last.fd # 0) =>
       /\ last.val = Min(Total(last.lens), Max(last.size0 - last.pos0, 0))
       /\ Len(last.data) = last.val
       /\ files[last.fd].position = last.pos0 + last.val
       /\ last.pos0 >= 0
       /\ last.data = SubSeq(files[last.fd].file.data, last.pos0 + 1, last.pos0 + last.val)
  /\ (last.op = "fd_read" /\ last.fd = 0) =>
       /\ last.errno = "SUCCESS"
       /\ last.val = Min(Total(last.lens), last.size0)
       /\ last.data = SubSeq(StdinBytes, Len(StdinBytes) - last.size0 + 1,
                             Len(StdinBytes) - last.size0 + last.val)
       /\ Len(stdin) = last.size0 - last.val

\* C9: fd_read, fd_write and fd_seek on one descriptor leave the position of every
\* other descriptor as it was, also of a descriptor on the same file; and the
\* descriptor a successful path_open returns has position 0.
C9_PositionsArePerDescriptor ==
  [][/\ (last.op = "none" /\ last'.op \in {"fd_read", "fd_write", "fd_seek"}) =>
          \A fd \in DOMAIN files :
            fd # last'.fd => fd \in DOMAIN files' /\ files'[fd].position = files[fd].position
     /\ (last.op = "none" /\ last'.op = "path_open" /\ last'.errno = "SUCCESS") =>
          files'[last'.val].position = 0]_vars

\* f is open twice; the first descriptor has read it to its end and the second one
\* has just read the whole content again
C9_Witness ==
  /\ last.op = "fd_read" /\ last.errno = "SUCCESS" /\ last.pos0 = 0
  /\ last.data = <<1, 2>>
  /\ \E fd \in DOMAIN files :
       /\ fd # last.fd /\ files[fd].isFile
       /\ files[fd].handle = files[last.fd].handle
       /\ files[fd].position = 2 /\ ~files[fd].writer.has
  /\ fs[<<S_, F_>>].data = <<1, 2>>

\* C26: in every reachable state the position of each open file is not negative, and
\* an fd_seek that answers an error has left the position where it was
C26_PositionsAreNotNegative ==
  /\ \A fd \in DOMAIN files : files[fd].isFile => files[fd].position >= 0
  /\ (last.op = "fd_seek" /\ last.errno # "SUCCESS" /\ Has(files, last.fd)
      /\ files[last.fd].isFile) =>
       files[last.fd].position = last.pos0

\* C27: an open file never has more than one writable stream open; an fd_write or
\* fd_filestat_set_size that succeeds leaves exactly one, the one it found if there
\* was one, with what was written to it before; and when fd_sync, fd_datasync,
\* fd_read, fd_filestat_get, fd_seek from the END or fd_close has succeeded, the
\* stream is closed and none is cached
C27_OneWriterPerFile ==
  [][LET fd == last'.fd
         old == files[fd].writer.data
         new == files'[fd].writer.data
         Reused ==
           /\ files'[fd].streams = files[fd].streams
           /\ last'.op = "fd_write" =>
                \A i \in 1..Len(old) :
                  (i <= last'.pos0 \/ i > last'.pos0 + last'.val) => new[i] = old[i]
           /\ last'.op = "fd_filestat_set_size" =>
                \A i \in 1..Min(Len(old), last'.fd2) : new[i] = old[i]
     IN (last'.op # "none" /\ last'.errno = "SUCCESS" /\ Has(files, fd) /\ files[fd].isFile) =>
          /\ \A x \in DOMAIN files' : files'[x].streams <= 1
          /\ last'.op \in {"fd_write", "fd_filestat_set_size"} =>
               /\ files'[fd].writer.has
               /\ files'[fd].streams = 1
               /\ files[fd].writer.has => Reused
          /\ (\/ last'.op \in {"fd_sync", "fd_datasync", "fd_read", "fd_filestat_get"}
              \/ last'.op = "fd_seek" /\ last'.flags = {"End"}) =>
               ~files'[fd].writer.has /\ files'[fd].streams = 0
          /\ last'.op = "fd_close" => ~Has(files', fd)]_vars

\* a second fd_write found the stream of the first and wrote to it
C27_Witness ==
  /\ last.op = "fd_write" /\ last.errno = "SUCCESS" /\ OnOpenFile
  /\ last.existed = "swap"
  /\ files[last.fd].writer.has
  /\ files[last.fd].streams = 1

\* ------------------------------------------------------------------ claims on paths

PathCalls ==
  {"path_open", "path_filestat_get", "path_create_directory", "path_remove_directory",
   "path_unlink_file"}

\* scanning the components left to right, a '..' is met while none is accumulated
RECURSIVE Escapes(_, _)
Escapes(parts, depth) ==
  IF parts = <<>> THEN FALSE
  ELSE IF Head(parts) = DotDot THEN depth = 0 \/ Escapes(Tail(parts), depth - 1)
  ELSE IF Head(parts) = Dot THEN Escapes(Tail(parts), depth)
  ELSE Escapes(Tail(parts), depth + 1)

\* C1: a path call on a preopen whose path meets '..' with no component accumulated
\* is answered NOTCAPABLE, has asked the backend for nothing and has changed nothing;
\* on any other path every entry the walk asked the backend for, and the entry a
\* successful path_open holds, is the preopen's directory or lies below it.
C1_WalkStaysBelowThePreopen ==
  (last.op \in PathCalls /\ IsPreOpenFd(last.fd, firstNonPreopenFd)) =>
    IF Escapes(SplitPath(last.path), 0)
    THEN last.errno = "NOTCAPABLE" /\ last.calls = 0 /\ last.kept
    ELSE /\ \A i \in 1..Len(last.walked) : Within(last.walked[i], files[last.fd].handle)
         /\ (last.op = "path_open" /\ last.errno = "SUCCESS") =>
              Within(files[last.val].handle, files[last.fd].handle)

\* path_unlink_file(3, "../f") is refused and the host's file f is still there
C1_Witness ==
  /\ last.op = "path_unlink_file" /\ last.fd = FIRST_PREOPEN_FD
  /\ last.path = JoinPath(<<DotDot, F_>>)
  /\ last.errno = "NOTCAPABLE" /\ last.calls = 0
  /\ IsFileNode(fs, <<S_, F_>>)

\* C6: path_create_directory, and path_open with CREATE|EXCLUSIVE, on a path whose
\* entry exists, a regular file or a directory, is answered EXIST and leaves the
\* backend and the descriptor table as they were.
C6_ExistingEntryIsReported ==
  (/\ \/ last.op = "path_create_directory"
      \/ last.op = "path_open" /\ {"Create", "Exclusive"} \subseteq last.flags
   /\ IsPreOpenFd(last.fd, firstNonPreopenFd)
   /\ ~Escapes(SplitPath(last.path), 0)
   /\ last.existed \in {"file", "dir"}) =>
    last.errno = "EXIST" /\ last.kept

\* C23: when the walk of a path call cannot enter an intermediate directory, because
\* the component is missing or names a regular file, the call answers NOENT and the
\* guest runs on: nothing is re-raised to the host
C23_FailedWalkIsNoent ==
  (/\ last.op \in PathCalls
   /\ IsPreOpenFd(last.fd, firstNonPreopenFd)
   /\ \E i \in 1..Len(last.walked) : ~IsDir(fs, last.walked[i])) =>
    last.errno = "NOENT" /\ run.st = "running"

\* C24: path_open without EXCLUSIVE, on a path whose walk meets no regular file:
\* with CREATE it never answers EXIST, the preopen's root included, and where the
\* directory of the target exists it succeeds, creating a regular file only when
\* the target is absent and opening the existing file or directory otherwise;
\* without CREATE it opens an existing target and answers NOENT when the target is
\* absent, allocating no descriptor and leaving next_fd as it was
C24_CreateOpensOrCreates ==
  LET target == files[last.fd].handle \o Normal(SplitPath(last.path), <<>>)
      InDirectory ==
        target = files[last.fd].handle \/ IsDir(fs, SubSeq(target, 1, Len(target) - 1))
      Opens ==
        /\ last.errno = "SUCCESS"
        /\ Has(files, last.val)
        /\ files[last.val].handle = target
        /\ files[last.val].isFile = IsFileNode(fs, target)
  IN (/\ last.op = "path_open"
      /\ IsPreOpenFd(last.fd, firstNonPreopenFd)
      /\ "Exclusive" \notin last.flags
      /\ ~Escapes(SplitPath(last.path), 0)
      /\ \A i \in 1..Len(last.walked) : ~IsFileNode(fs, last.walked[i])) =>
       IF "Create" \in last.flags
       THEN /\ last.errno # "EXIST"
            /\ InDirectory => Opens
            /\ (InDirectory /\ last.existed = "none") => IsFileNode(fs, target)
            /\ last.existed = "dir" => IsDir(fs, target)
       ELSE IF last.existed # "none" THEN Opens
       ELSE last.errno = "NOENT" /\ last.kept

\* C33 as stated: a path call whose dir_fd is outside the preopen range answers BADF
\* and leaves the backend, the table and next_fd as they were
C33_OnlyPreopensAnchorPaths ==
  [][(last'.op \in PathCalls /\ ~IsPreOpenFd(last'.fd, firstNonPreopenFd)) =>
       /\ last'.errno = "BADF"
       /\ last'.calls = 0
       /\ UNCHANGED <<fs, files, nextFd>>]_vars

\* C33: a path call whose dir_fd is outside the preopen range, the directories
\* path_open returned included, answers BADF, unless it is a path_open whose fdflags
\* hold more than NONBLOCK, which answers NOSYS; either way it makes no backend call
\* and leaves the backend, the table and next_fd as they were
C33_OnlyPreopensAnchorPathsUnlessNosys ==
  [][(last'.op \in PathCalls /\ ~IsPreOpenFd(last'.fd, firstNonPreopenFd)) =>
       /\ last'.errno = IF last'.op = "path_open" /\ last'.fdflags \ {"NonBlock"} # {}
                        THEN "NOSYS" ELSE "BADF"
       /\ last'.calls = 0
       /\ UNCHANGED <<fs, files, nextFd>>]_vars

\* path_open was refused on a directory that an earlier path_open returned
C33_Witness ==
  /\ last.op = "path_open"
  /\ last.fdflags = {}
  /\ last.fd >= firstNonPreopenFd
  /\ Has(files, last.fd) /\ ~files[last.fd].isFile
  /\ \E i \in DOMAIN handed : handed[i] = last.fd
  /\ last.errno = "BADF"

\* ------------------------------------------------------------------ claims on findRelPath

\* the preopen prefix matches the path up to the end of a component: the path starts
\* with it and goes on, after the prefix less its trailing slashes, with '/' or ends
MatchesOnBoundary(prefix, path) ==
  \/ prefix = <<>> /\ CharAt(path, 0) # "/"
  \/ /\ StartsWith(path, prefix)
     /\ \/ TrimmedLen(prefix, Len(prefix)) = Len(path)
        \/ CharAt(path, TrimmedLen(prefix, Len(prefix))) = "/"

\* the preopens that match the path asked about
Candidates ==
  {i \in FIRST_PREOPEN_FD..(firstNonPreopenFd - 1) :
     MatchesOnBoundary(EffectivePrefix(files[i].path, query.path), query.path)}

PrefixLen(i) == Len(EffectivePrefix(files[i].path, query.path))

\* C5: findRelPath finds a preopen exactly when one matches the path on a component
\* boundary, and the one it selects has the longest prefix among those that match,
\* the last registered one among those of that length.
C5_LongestPrefixWins ==
  query # NoQuery =>
    /\ query.found <=> Candidates # {}
    /\ query.found =>
         /\ query.fd \in Candidates
         /\ \A j \in Candidates :
              \/ PrefixLen(query.fd) > PrefixLen(j)
              \/ PrefixLen(query.fd) = PrefixLen(j) /\ query.fd >= j

\* C32: a path equal to a preopen's path is resolved, to a preopen with that prefix
\* and the relative path "."; whatever preopen findRelPath selects matches the path
\* up to the end of a component (the prefix less its trailing slashes is followed by
\* '/' or by the end of the path), and the relative path is what follows the prefix,
\* without leading slashes, or "." when nothing follows
C32_MatchesWholeComponents ==
  LET path == query.path
      Prefix(i) == EffectivePrefix(files[i].path, path)
      Rest == StripLeadingSlashes(SliceFrom(path, Len(Prefix(query.fd))))
  IN query # NoQuery =>
       /\ (\E i \in FIRST_PREOPEN_FD..(firstNonPreopenFd - 1) : Prefix(i) = path /\ path # <<>>) =>
            /\ query.found
            /\ Prefix(query.fd) = path
            /\ query.relativePath = <<".">>
       /\ query.found =>
            /\ MatchesOnBoundary(Prefix(query.fd), path)
            /\ query.relativePath = IF Rest = <<>> THEN <<".">> ELSE Rest

\* ------------------------------------------------------------------ claims on fd_readdir

\* C3: when an fd_readdir with cookie 0 that emitted entries is followed on the same
\* directory by an fd_readdir whose cookie is the next field of the last of them, the
\* two outputs one after the other are the first entries of the directory in backend
\* order, each once, the entry at position p carrying next = p + 1.
C3_PairEnumeratesOnce ==
  [][(/\ last.op = "fd_readdir" /\ last.errno = "SUCCESS"
      /\ last.pos0 = 0 /\ last.data # <<>>
      /\ last'.op = "fd_readdir" /\ last'.errno = "SUCCESS"
      /\ last'.fd = last.fd
      /\ last'.pos0 = last.data[Len(last.data)].next
      /\ fs' = fs) =>
       /\ Len(last.data \o last'.data) <= Len(BackendEntries(fs, files[last.fd].handle))
       /\ \A i \in 1..Len(last.data \o last'.data) :
            (last.data \o last'.data)[i]
              = Dirent(BackendEntries(fs, files[last.fd].handle)[i], i)]_vars

\* C25: whatever fd_readdir calls came before on the directory, a call with cookie c
\* emits the entries at the positions c, c + 1, ... of the backend order, the entry
\* at position p carrying next = p + 1, and it emits nothing only when there is no
\* entry at position c or that entry does not fit the buffer
C25_CookieIsThePosition ==
  LET entries == BackendEntries(fs, files[last.fd].handle)
      c == last.pos0
  IN (last.op = "fd_readdir" /\ last.errno = "SUCCESS") =>
       /\ c + Len(last.data) <= Max(c, Len(entries))
       /\ \A i \in 1..Len(last.data) : last.data[i] = Dirent(entries[c + i], c + i)
       /\ (last.data = <<>> /\ c < Len(entries)) =>
            last.size0 < DirentSize + Len(Dirent(entries[c + 1], c + 1).name)

\* ------------------------------------------------------------------ claims on descriptors

\* C20: the descriptors 0, 1 and 2 are never in the open-file table, and fd_close
\* and fd_renumber answer BADF when they are named as the descriptor to close or to
\* move
C20_StandardDescriptorsStayOut ==
  /\ DOMAIN files \cap (0..(FIRST_PREOPEN_FD - 1)) = {}
  /\ (last.op = "fd_close" /\ last.fd < FIRST_PREOPEN_FD) => last.errno = "BADF"
  /\ (last.op = "fd_renumber" /\ (last.fd < FIRST_PREOPEN_FD \/ last.fd2 < FIRST_PREOPEN_FD)) =>
       last.errno = "BADF"

\* an open descriptor was to be moved onto a standard one and the call was refused
C20_Witness ==
  /\ last.op = "fd_renumber"
  /\ last.fd >= firstNonPreopenFd
  /\ last.fd2 < FIRST_PREOPEN_FD
  /\ last.errno = "BADF"
  /\ last.kept

\* C21: every descriptor of the preopen range refers, in every reachable state, to
\* the OpenDirectory the constructor registered there: no call removes a preopen
\* from the table or puts another object in its place
C21_PreopensStayRegistered ==
  \A fd \in FIRST_PREOPEN_FD..(firstNonPreopenFd - 1) :
    /\ Has(files, fd)
    /\ ~files[fd].isFile
    /\ files[fd].path = PreOpens[fd - FIRST_PREOPEN_FD + 1].path
    /\ files[fd].handle = PreOpens[fd - FIRST_PREOPEN_FD + 1].handle

\* C22: fd_renumber(from, to) either succeeds, and then to refers to the object from
\* referred to, from is absent (unless it is to) and no other descriptor changed,
\* or it fails and leaves the table as it was; it does not fail because to is not
\* open
C22_RenumberIsAtomic ==
  [][last'.op = "fd_renumber" =>
       IF (Has(files, last'.fd) /\ ~Has(files, last'.fd2)) \/ last'.errno = "SUCCESS"
       THEN /\ last'.errno = "SUCCESS"
            /\ Has(files, last'.fd)
            /\ Has(files', last'.fd2)
            /\ files'[last'.fd2] = files[last'.fd]
            /\ last'.fd # last'.fd2 => ~Has(files', last'.fd)
            /\ \A fd \in (DOMAIN files \cup DOMAIN files') \ {last'.fd, last'.fd2} :
                 Has(files, fd) /\ Has(files', fd) /\ files'[fd] = files[fd]
       ELSE files' = files]_vars

\* the calls that name one descriptor of the table
FdCalls ==
  {"fd_read", "fd_write", "fd_seek", "fd_tell", "fd_sync", "fd_datasync",
   "fd_filestat_set_size", "fd_filestat_get", "fd_readdir", "fd_close"}

\* C11: a call on a descriptor the table does not hold answers BADF and changes
\* nothing; a successful fd_close leaves the descriptor absent; and a descriptor
\* that was handed out and is absent is absent ever after
C11_ClosedDescriptorsStayClosed ==
  [][ /\ \A fd \in FIRST_PREOPEN_FD..(nextFd - 1) :
           fd \notin DOMAIN files => fd \notin DOMAIN files'
      /\ (/\ last'.op \in FdCalls
          /\ last'.fd >= FIRST_PREOPEN_FD
          /\ last'.fd \notin DOMAIN files) =>
            /\ last'.errno = "BADF"
            /\ UNCHANGED <<fs, files, nextFd, stdin>>
      /\ (last'.op = "fd_close" /\ last'.errno = "SUCCESS") => last'.fd \notin DOMAIN files'
    ]_vars

\* a descriptor path_open returned was closed, a later descriptor is open, and a
\* read on the closed one was refused
C11_Witness ==
  /\ last.op = "fd_read"
  /\ \E i \in DOMAIN handed : handed[i] = last.fd
  /\ last.fd \notin DOMAIN files
  /\ \E fd \in DOMAIN files : fd > last.fd
  /\ last.errno = "BADF"

\* C12: on an open directory fd_read, fd_write, fd_seek, fd_tell,
\* fd_filestat_set_size and fd_datasync answer ISDIR and fd_sync answers SUCCESS; on
\* an open file fd_readdir answers NOTDIR; none of these calls changes the table, a
\* position, the standard input or the backend
C12_WrongKindIsRefused ==
  [][ LET isDir == last'.fd \in DOMAIN files /\ ~files[last'.fd].isFile
          isFile == last'.fd \in DOMAIN files /\ files[last'.fd].isFile
      IN /\ (/\ last'.op \in {"fd_read", "fd_write", "fd_seek", "fd_tell",
                              "fd_filestat_set_size", "fd_datasync"}
             /\ isDir) =>
               /\ last'.errno = "ISDIR"
               /\ UNCHANGED <<fs, files, nextFd, stdin>>
         /\ (last'.op = "fd_sync" /\ isDir) =>
               /\ last'.errno = "SUCCESS"
               /\ UNCHANGED <<fs, files, nextFd, stdin>>
         /\ (last'.op = "fd_readdir" /\ isFile) =>
               /\ last'.errno = "NOTDIR"
               /\ UNCHANGED <<fs, files, nextFd, stdin>>
    ]_vars

\* fd_sync on a directory that path_open returned succeeded
C12_Witness ==
  /\ last.op = "fd_sync"
  /\ last.fd >= firstNonPreopenFd
  /\ last.fd \in DOMAIN files
  /\ ~files[last.fd].isFile
  /\ last.errno = "SUCCESS"

\* C14: path_remove_directory and path_unlink_file on a path that leads back to the
\* preopen's own directory ("", ".", "d/..") answer ACCES, ask the backend for
\* nothing and remove nothing
C14_PreopenRootIsNotRemoved ==
  (/\ last.op \in {"path_remove_directory", "path_unlink_file"}
   /\ IsPreOpenFd(last.fd, firstNonPreopenFd)
   /\ ~Escapes(SplitPath(last.path), 0)
   /\ Normal(SplitPath(last.path), <<>>) = <<>>) =>
     /\ last.errno = "ACCES"
     /\ last.calls = 0
     /\ last.kept
     /\ IsDir(fs, files[last.fd].handle)

\* path_remove_directory(3, "d/..") was refused
C14_Witness ==
  /\ last.op = "path_remove_directory"
  /\ last.fd = FIRST_PREOPEN_FD
  /\ last.path = JoinPath(<<D_, DotDot>>)
  /\ last.errno = "ACCES"
  /\ last.calls = 0

\* C15: fd_prestat_get answers SUCCESS with the length of the mount path for every
\* descriptor of the preopen range, so that probing 3, 4, 5, ... finds every
\* preopen before the first BADF, and BADF for every other descriptor;
\* fd_prestat_dir_name, given room for the name, writes exactly that path
C15_PrestatNamesThePreopens ==
  /\ last.op = "fd_prestat_get" =>
       IF IsPreOpenFd(last.fd, firstNonPreopenFd)
       THEN /\ last.errno = "SUCCESS"
            /\ last.val = Len(PreOpens[last.fd - FIRST_PREOPEN_FD + 1].path)
       ELSE last.errno = "BADF"
  /\ last.op = "fd_prestat_dir_name" =>
       IF ~IsPreOpenFd(last.fd, firstNonPreopenFd) THEN last.errno = "BADF"
       ELSE last.size0 >= Len(PreOpens[last.fd - FIRST_PREOPEN_FD + 1].path) =>
              /\ last.errno = "SUCCESS"
              /\ last.data = Utf8Bytes(PreOpens[last.fd - FIRST_PREOPEN_FD + 1].path)

\* the errnos that tell a guest its buffer is too small
OutOfSpaceErrnos == {"NAMETOOLONG", "OVERFLOW", "NOBUFS", "NOMEM", "RANGE", "INVAL"}

\* C34: fd_prestat_dir_name with a path_len smaller than the bytes of the preopen's
\* path answers with an errno of the out-of-space class and raises no exception at
\* the host: the guest keeps running
C34_ShortNameBufferIsAnErrno ==
  (/\ last.op = "fd_prestat_dir_name"
   /\ IsPreOpenFd(last.fd, firstNonPreopenFd)
   /\ Has(files, last.fd)
   /\ last.size0 < Len(Utf8Bytes(files[last.fd].path)))
    => /\ last.errno \in OutOfSpaceErrnos
       /\ run.st = "running"

\* ------------------------------------------------------------------ claims on arguments

\* the bytes of the strings, each followed by one NUL
RECURSIVE Packed(_)
Packed(strs) ==
  IF strs = <<>> THEN <<>> ELSE Utf8Bytes(Head(strs)) \o <<"NUL">> \o Packed(Tail(strs))

\* C16: *_sizes_get reports the number of strings (the program name and the
\* arguments, or the KEY=VALUE entries) and the bytes they take, each with one
\* NUL; *_get writes them back to back in order and pointer i is the buffer's
\* address plus what the strings before i take, so that *_get writes exactly the
\* size *_sizes_get reports
C16_StringsArePackedInOrder ==
  LET Sizes(strs) ==
        /\ last.errno = "SUCCESS"
        /\ last.val = Len(strs)
        /\ last.size0 = Len(Packed(strs))
      Get(strs, c) ==
        /\ last.errno = "SUCCESS"
        /\ last.data = Packed(strs)
        /\ Len(last.data) = SizesGet(c).size
        /\ Len(last.lens) = Len(strs)
        /\ \A i \in 1..Len(strs) :
             last.lens[i] = last.pos0 + Len(Packed(SubSeq(strs, 1, i - 1)))
  IN /\ last.op = "args_sizes_get" =>
          Sizes(collections.argv) /\ last.val = 1 + Len(collections.argv) - 1
     /\ last.op = "environ_sizes_get" => Sizes(collections.environ)
     /\ last.op = "args_get" => Get(collections.argv, collections.args)
     /\ last.op = "environ_get" => Get(collections.environ, collections.env)

\* ------------------------------------------------------------------ claims on the adapter

\* C17: an import answers SUCCESS exactly when its body completes; a thrown
\* SystemError answers its code, NotFoundError NOENT, NotAllowedError,
\* DataCloneError and SecurityError ACCES, InvalidModificationError NOTEMPTY,
\* AbortError CANCELED, a TypeError or RangeError INVAL, and anything else is
\* re-raised to the host, which ends the guest's run
C17_AdapterTranslatesWhatWasThrown ==
  LET t == last.thrown
      Reraised == last.errno = "THROW" /\ run.st # "running"
  IN last.op \notin {"none", "_start"} =>
       /\ last.errno = "SUCCESS" <=> t = NoErr
       /\ t.type = "SystemError" => last.errno = t.code
       /\ t.type = "DOMException" =>
            /\ t.code = "NotFoundError" => last.errno = "NOENT"
            /\ t.code \in {"NotAllowedError", "DataCloneError", "SecurityError"} =>
                 last.errno = "ACCES"
            /\ t.code = "InvalidModificationError" => last.errno = "NOTEMPTY"
            /\ t.code = "AbortError" => last.errno = "CANCELED"
            /\ t.code \notin {"NotFoundError", "NotAllowedError", "DataCloneError",
                              "SecurityError", "InvalidModificationError", "AbortError"} =>
                 Reraised
       /\ t.type \in {"TypeError", "RangeError"} => last.errno = "INVAL"
       /\ t.type \in {"ExitStatus", "Error"} => Reraised
       /\ last.errno # "THROW" => run.st = "running"

\* the backend refused a call for security reasons and the guest was answered ACCES
C17_Witness ==
  /\ last.op = "import"
  /\ last.thrown = DOMException("SecurityError")
  /\ last.errno = "ACCES"
  /\ run.st = "running"

\* ------------------------------------------------------------------ claims on polling

\* C18: poll_oneoff with no subscription answers INVAL and writes neither events
\* nor an event count; when it answers SUCCESS for n >= 1 subscriptions, the event
\* count it writes is at least 1 and at most n
C18_PollCountsItsEvents ==
  last.op = "poll_oneoff" =>
    /\ last.size0 = 0 => last.errno = "INVAL" /\ last.data = <<>> /\ last.lens = <<>>
    /\ (last.size0 >= 1 /\ last.errno = "SUCCESS") =>
         /\ Len(last.lens) = 1
         /\ 1 <= last.lens[1] /\ last.lens[1] <= last.size0
         /\ Len(last.data) = last.lens[1]

\* two clocks were polled and only the earlier one fired
C18_Witness ==
  /\ last.op = "poll_oneoff"
  /\ last.errno = "SUCCESS"
  /\ last.size0 = 2
  /\ last.lens = <<1>>
  /\ last.data[1].type = "Clock"

\* C30: when every subscription is a clock, poll_oneoff answers SUCCESS with one
\* SUCCESS clock event for each clock that is due no later than the earliest clock's
\* timeout plus that clock's precision, the earliest among them, and for no other;
\* the delay it waits is at least the timeout of every clock it reports; one relative
\* clock gives exactly one event, with its userdata
C30_ClocksWithinPrecisionFire ==
  LET subs == last.subs
      Due(i) == IF subs[i].flags = "Absolute" THEN subs[i].timeout - last.pos0
                ELSE subs[i].timeout
      Earliest(e) == \A j \in DOMAIN subs : Due(e) <= Due(j)
      DueWith(e) == {i \in DOMAIN subs : Due(i) <= Due(e) + subs[e].precision}
      Reports(R) ==
        /\ Len(last.data) = Cardinality(R)
        /\ last.lens = <<Cardinality(R)>>
        /\ \A u \in {subs[i].userdata : i \in DOMAIN subs} :
             Cardinality({k \in DOMAIN last.data : last.data[k].userdata = u})
               = Cardinality({i \in R : subs[i].userdata = u})
        /\ \A k \in DOMAIN last.data :
             /\ last.data[k].error = "SUCCESS" /\ last.data[k].type = "Clock"
             /\ \E i \in R : subs[i].userdata = last.data[k].userdata
        /\ \A i \in R : last.val >= Due(i)
  IN (/\ last.op = "poll_oneoff"
      /\ subs # <<>>
      /\ \A i \in DOMAIN subs : subs[i].tag = "Clock") =>
       /\ last.errno = "SUCCESS"
       /\ \E e \in DOMAIN subs : Earliest(e) /\ e \in DueWith(e) /\ Reports(DueWith(e))
       /\ (Len(subs) = 1 /\ subs[1].flags = "Relative") =>
            /\ last.data = <<[userdata |-> subs[1].userdata, error |-> "SUCCESS", type |-> "Clock"]>>
            /\ last.val = subs[1].timeout

\* two clocks with different timeouts were polled, the later one was due within the
\* precision of the earlier one, and both fired after the later one's timeout
C30_Witness ==
  /\ last.op = "poll_oneoff"
  /\ last.errno = "SUCCESS"
  /\ Len(last.subs) = 2
  /\ last.subs[1].tag = "Clock" /\ last.subs[2].tag = "Clock"
  /\ last.subs[1].flags = "Relative" /\ last.subs[2].flags = "Relative"
  /\ last.subs[1].timeout > last.subs[2].timeout
  /\ last.lens = <<2>>
  /\ last.val = last.subs[1].timeout

\* C31: when poll_oneoff is given subscriptions of the three event types of which at
\* least one is an FD_READ or FD_WRITE, it answers SUCCESS having written, for each of
\* these and in their order, one event with NOSYS, the subscription's userdata and its
\* type, and their number; it reports no clock and gives no delay to wait for
C31_DescriptorEventsAreNosys ==
  LET subs == last.subs
      OnDescriptor(s) == s.tag \in {"FdRead", "FdWrite"}
      fdSubs == SelectSeq(subs, OnDescriptor)
  IN (/\ last.op = "poll_oneoff"
      /\ \A i \in DOMAIN subs : subs[i].tag \in {"Clock", "FdRead", "FdWrite"}
      /\ fdSubs # <<>>) =>
       /\ last.errno = "SUCCESS"
       /\ last.data = [k \in 1..Len(fdSubs) |->
                         [userdata |-> fdSubs[k].userdata, error |-> "NOSYS",
                          type |-> fdSubs[k].tag]]
       /\ last.lens = <<Len(fdSubs)>>
       /\ last.val = 0

\* a clock was polled together with an FD_READ, and only the FD_READ was reported
C31_Witness ==
  /\ last.op = "poll_oneoff"
  /\ last.errno = "SUCCESS"
  /\ Len(last.subs) = 2
  /\ last.subs[1].tag = "Clock" /\ last.subs[2].tag = "FdRead"
  /\ last.lens = <<1>>
  /\ last.data[1].error = "NOSYS" /\ last.data[1].type = "FdRead"

\* ------------------------------------------------------------------ claims on memory layout

\* the smallest multiple of align that is not below n
RoundedUp(n, align) == CHOOSE m \in n..(n + align) : m % align = 0 /\ m - n < align

\* C19: struct() places each field at the smallest offset that is not below the
\* end of the previous field and is a multiple of the field's alignment, and the
\* size is the end of the last field rounded up to the largest alignment; prestat
\* has size 8 with name_len at 4, iovec size 8, fdstat size 24 with offsets 0, 2,
\* 8, 16, dirent size 24 with offsets 0, 8, 16, 20, filestat size 64; a tagged
\* union places its payload at the tag's size rounded up to the union's alignment
C19_FieldsAreAlignedAndPacked ==
  LET desc == last.data
      End(i) == IF i = 0 THEN 0 ELSE last.lens[i] + desc[i].size
      Largest(aligns) == CHOOSE a \in aligns : \A b \in aligns : b <= a
  IN /\ (last.op = "struct" /\ desc # <<>>) =>
          /\ Len(last.lens) = Len(desc)
          /\ \A i \in 1..Len(desc) : last.lens[i] = RoundedUp(End(i - 1), desc[i].align)
          /\ last.val = Largest({desc[i].align : i \in 1..Len(desc)})
          /\ last.size0 = RoundedUp(End(Len(desc)), last.val)
     /\ last.op = "taggedUnion" =>
          last.pos0 = RoundedUp(last.lens[1],
                                Largest({desc[i].align : i \in 1..Len(desc)}))
     /\ prestat_t.size = 8 /\ prestat_t.offsets = <<0, 4>>
     /\ iovec_t.size = 8
     /\ fdstat_t.size = 24 /\ fdstat_t.offsets = <<0, 2, 8, 16>>
     /\ dirent_t.size = 24 /\ dirent_t.offsets = <<0, 8, 16, 20>>
     /\ filestat_t.size = 64

\* the fields of fdstat were laid out, with padding before flags and rightsBase
C19_Witness ==
  /\ last.op = "struct"
  /\ last.data = <<std(1), std(2), std(8), std(8)>>
  /\ last.lens = <<0, 2, 8, 16>>
  /\ last.size0 = 24

\* ------------------------------------------------------------------ claims on listings

C28_ViewsAreTakenAfterSuspension ==
  [][LET S0 == State(fs, files, nextFd)
         Opens(r) ==
           /\ last'.thrown = r.err /\ last'.val = r.fd
           /\ files' = r.S.files /\ fs' = r.S.fs /\ nextFd' = r.S.nextFd
         Reads(r) ==
           /\ last'.thrown = r.err /\ last'.val = r.n /\ last'.data = r.data
           /\ files' = r.S.files /\ stdin' = r.rest
         Writes ==
           last'.errno = "SUCCESS" => last'.val = Len(last'.data)
         Lists(r) == last'.thrown = r.err /\ last'.data = r.out
         Polls(r) == last'.thrown = r.err /\ last'.data = r.events /\ last'.lens = r.eventsNum
     IN memory.grows =>
          /\ last'.op = "path_open" =>
               Opens(PathOpenBody(S0, firstNonPreopenFd, last'.fd, last'.path, last'.flags,
                                  last'.fdflags, FALSE))
          /\ last'.op = "fd_read" => Reads(FdReadBody(S0, stdin, last'.fd, last'.lens, FALSE))
          /\ last'.op = "fd_write" => Writes
          /\ last'.op = "fd_readdir" =>
               Lists(FdReaddirBody(S0, last'.fd, last'.size0, last'.pos0))
          /\ last'.op = "poll_oneoff" => memory'.buffer = memory.buffer + 1
     ]_vars

\* ------------------------------------------------------------------ claims on interruption

\* C29: when the embedder's signal fires while poll_oneoff waits for a clock or
\* fd_readdir enumerates an open directory, the call answers CANCELED, and poll_oneoff
\* reports no clock
C29_AbortCancelsTheCall ==
  [][abortSignal.fires =>
       /\ last'.op = "poll_oneoff" => last'.errno = "CANCELED" /\ last'.data = <<>>
       /\ (last'.op = "fd_readdir" /\ Has(files, last'.fd) /\ ~files[last'.fd].isFile) =>
            last'.errno = "CANCELED"
     ]_vars

\* ------------------------------------------------------------------ claims on written data

C36_ReadSeesCommittedWrites ==
  [][(/\ last.op = "none" /\ last'.op \in {"fd_read", "fd_filestat_get"}
      /\ last'.errno = "SUCCESS"
      /\ Has(files, last'.fd) /\ files[last'.fd].isFile
      /\ ~files[last'.fd].writer.has) =>
        /\ last'.op = "fd_read" =>
             last'.data =
               SubSeq(fs[files[last'.fd].handle].data, files[last'.fd].position + 1,
                      Min(files[last'.fd].position + Total(last'.lens),
                          Len(fs[files[last'.fd].handle].data)))
        /\ last'.op = "fd_filestat_get" =>
             last'.val = Len(fs[files[last'.fd].handle].data)]_vars

\* ------------------------------------------------------------------ claims on failed opens

\* C37: a path_open that answers an error leaves the backend as it was, for every
\* combination of CREATE, DIRECTORY, EXCLUSIVE and TRUNCATE, TRUNCATE with
\* CREATE|DIRECTORY on a missing name (answered ISDIR) included, and allocates no
\* descriptor: the tree, the table and next_fd are unchanged.
C37_FailedOpenChangesNothing ==
  [][(last.op = "none" /\ last'.op = "path_open" /\ last'.errno # "SUCCESS") =>
       /\ fs' = fs
       /\ files' = files
       /\ nextFd' = nextFd]_vars

\* ------------------------------------------------------------------ claims on the end of the run

\* C38: when run() returns, because _start returned or through proc_exit, every byte
\* a successful fd_write acknowledged is committed to the backend, also on files the
\* guest never closed or synced: no open file is left with a writer whose content
\* the backend file does not hold.
C38_ExitCommitsWrittenBytes ==
  run.st = "returned" =>
    \A fd \in DOMAIN files :
      (files[fd].isFile /\ files[fd].writer.has) =>
        /\ IsFileNode(fs, files[fd].handle)
        /\ fs[files[fd].handle].data = files[fd].writer.data

\* ------------------------------------------------------------------ claims on removal

\* C39: path_remove_directory and path_unlink_file are one operation. On a path
\* without ".." that names an entry below the preopen, either of them removes the
\* entry, a regular file or an empty directory alike, and answers SUCCESS; on a
\* directory that is not empty either of them answers NOTEMPTY and removes nothing.
C39_RemovalIgnoresTheKind ==
  [][(/\ last.op = "none"
      /\ last'.op \in {"path_remove_directory", "path_unlink_file"}
      /\ last'.fd = FIRST_PREOPEN_FD
      /\ Has(files, FIRST_PREOPEN_FD) /\ ~files[FIRST_PREOPEN_FD].isFile
      /\ \A i \in DOMAIN SplitPath(last'.path) : SplitPath(last'.path)[i] # DotDot
      /\ Normal(SplitPath(last'.path), <<>>) # <<>>
      /\ files[FIRST_PREOPEN_FD].handle \o Normal(SplitPath(last'.path), <<>>) \in DOMAIN fs) =>
        IF Children(fs, files[FIRST_PREOPEN_FD].handle \o Normal(SplitPath(last'.path), <<>>)) # {}
        THEN last'.errno = "NOTEMPTY" /\ fs' = fs
        ELSE /\ last'.errno = "SUCCESS"
             /\ fs' = Drop(fs, files[FIRST_PREOPEN_FD].handle \o Normal(SplitPath(last'.path), <<>>))]_vars

\* path_unlink_file removed the directory d, once it was empty
C39_Witness ==
  /\ last.op = "path_unlink_file" /\ last.errno = "SUCCESS"
  /\ last.fd = FIRST_PREOPEN_FD /\ last.path = D_
  /\ last.existed = "dir"
  /\ <<S_, D_>> \notin DOMAIN fs

====
